---- MODULE Spec2Model ----
(***************************************************************************)
(* NEST risk calculator (endometrial-cancer recurrence): the scoring       *)
(* function calculateRisk, the what-if panel, the batch validation, the    *)
(* risk form, the Index page, the risk gauge and the request built for the *)
(* similar-patient and survival-curve services.                            *)
(*                                                                         *)
(* The repository holds two calculateRisk sources:                         *)
(*   "lib": src/frontend/src/lib/riskCalculator.ts (model v2, with MMR)    *)
(*   "alt": src/unnamed/part_001                   (11 coefficients)       *)
(* Both are modelled; the variable ver says which one a behaviour runs.    *)
(*                                                                         *)
(* Numbers.  JavaScript doubles are modelled in fixed point:               *)
(*   feature values, MEANS, STDS       in units of 10^-4  (E4)             *)
(*   COEFFICIENTS, INTERCEPT, z-scores,                                    *)
(*   contributions, logit              in units of 10^-6  (E6)             *)
(*   probabilities                     in units of 10^-8  (PS)             *)
(*   percentages                       in tenths of a percent              *)
(*   numeric FormData fields           in tenths (68 years is 680)         *)
(* Every product and quotient is rounded to the nearest unit.  A JavaScript*)
(* value is a record [t, nan, v]: t is the typeof, nan marks NaN.          *)
(***************************************************************************)
EXTENDS Integers, Sequences, FiniteSets, TLC

VARIABLES
    ver,        \* which calculateRisk source runs: "lib" or "alt"
    params,     \* the module-level tables of that source (COEFFICIENTS, MEANS, ...)
    data,       \* the FormData the caller holds
    result,     \* the RiskResult of the last calculateRisk call, or Null
    locals,     \* the locals of that call: numericData, logit, probability, terms
    scored,     \* the FormData that call was given, or Null
    first,      \* the first call: [data, result], or Null
    edits,      \* how many times a field was changed (form or what-if control)
    panel,      \* the mounted WhatIfAnalysis: its props and state, or Null
    tiering,    \* the tier classifier alone: [probability, riskLevel]
    testSet,    \* BatchValidation: the imported test_set.json, a list of cases
    memo,       \* BatchValidation: what its two useMemo cells hold,
                \* [results, metrics], or Null before the first render
    filter,     \* BatchValidation: useState("all")
    search,     \* BatchValidation: useState("")
    filteredResults,  \* BatchValidation: the list the last render shows
    runs,       \* BatchValidation: calculateRisk calls made so far
    riskForm,   \* the mounted RiskForm: its source, state and last event, or Null
    onSubmit,   \* the FormData onSubmit was last invoked with, or Null
    listing,    \* the contribution list alone: [pushed, sorted, contributions], or Null
    page,       \* the mounted Index page: isCalculating, the pending delay
                \* timers and what its handlers did last, or Null
    gauge       \* the mounted RiskGauge: its prop, state, effect and timer, or Null

scorerVars == <<data, result, locals, scored, first, edits>>
batchVars == <<testSet, memo, filter, search, filteredResults, runs>>
formVars == <<riskForm, onSubmit>>
vars == <<ver, params, scorerVars, panel, tiering, batchVars, formVars, listing, page, gauge>>

Null == [t |-> "null"]

\* ------------------------------------------------------------- bounds
MaxEdits == 1
TaylorTerms == 12
TierGrid == 200
MaxCohort == 2
MaxUpdates == 2

\* --------------------------------------------------------- arithmetic
E4 == 10^4
E6 == 10^6
PS == 10^8

Abs(n) == IF n < 0 THEN -n ELSE n
Sgn(n) == IF n < 0 THEN -1 ELSE 1
Max(a, b) == IF a >= b THEN a ELSE b
Min(a, b) == IF a <= b THEN a ELSE b

\* <<q, r>> with a * b = q * c + r and 0 <= r < c, for a, b >= 0, c > 0,
\* by doubling, so that no intermediate value leaves 32 bits.
RECURSIVE MulDivQR(_, _, _)
MulDivQR(a, b, c) ==
    IF b = 0 THEN <<0, 0>>
    ELSE LET h == MulDivQR(a, b \div 2, c)
             d == 2 * h[2]
             q2 == (2 * h[1]) + (d \div c)
             r2 == d % c
         IN  IF b % 2 = 0 THEN <<q2, r2>>
             ELSE LET s == r2 + (a % c)
                  IN  <<q2 + (a \div c) + (s \div c), s % c>>

\* a * b / c rounded to the nearest integer (half away from zero), c > 0.
MulDiv(a, b, c) ==
    LET qr == MulDivQR(Abs(a), Abs(b), c)
        q == IF 2 * qr[2] >= c THEN qr[1] + 1 ELSE qr[1]
    IN  Sgn(a) * Sgn(b) * q

\* ---------------------------------------------------- JavaScript values
Num(n) == [t |-> "number", nan |-> FALSE, v |-> n]
NaN == [t |-> "number", nan |-> TRUE, v |-> 0]
Undefined == [t |-> "undefined", nan |-> FALSE, v |-> 0]
\* A property found on Object.prototype (a function, or the prototype itself).
Inherited == [t |-> "function", nan |-> FALSE, v |-> 0]

IsNum(x) == x.t = "number" /\ ~x.nan
IsNaN(x) == x.t = "number" /\ x.nan
Truthy(x) == x.t = "function" \/ (IsNum(x) /\ x.v # 0)
\* x || y
Or(x, y) == IF Truthy(x) THEN x ELSE y
\* ToNumber, as the arithmetic operators apply it to an operand
ToNumber(x) == IF x.t = "number" THEN x ELSE NaN

\* The relational operators: any comparison with NaN is false.
Lt(x, y) == IsNum(x) /\ IsNum(y) /\ x.v < y.v
Gt(x, y) == IsNum(x) /\ IsNum(y) /\ x.v > y.v
Ge(x, y) == IsNum(x) /\ IsNum(y) /\ x.v >= y.v
StrictEq(x, y) == IsNum(x) /\ IsNum(y) /\ x.v = y.v
Add(x, y) == IF IsNum(x) /\ IsNum(y) THEN Num(x.v + y.v) ELSE NaN
Sub(x, y) == IF IsNum(x) /\ IsNum(y) THEN Num(x.v - y.v) ELSE NaN
MathAbs(x) == IF IsNum(x) THEN Num(Abs(x.v)) ELSE NaN

\* The own and inherited properties of an object literal { k: n, ... }: a key
\* that is not an own property is looked up on Object.prototype.
ObjectPrototypeKeys ==
    {"constructor", "toString", "toLocaleString", "valueOf", "hasOwnProperty",
     "isPrototypeOf", "propertyIsEnumerable", "__proto__",
     "__defineGetter__", "__defineSetter__", "__lookupGetter__", "__lookupSetter__"}

\* table[key] for a Record<string, number> literal whose codes are integers;
\* a number comes back as a feature value (E4).
Get(table, key) ==
    IF key \in DOMAIN table THEN Num(table[key] * E4)
    ELSE IF key \in ObjectPrototypeKeys THEN Inherited
    ELSE Undefined

\* obj.field || dflt, for a string field that may be absent or empty
StrOr(obj, field, dflt) ==
    IF field \in DOMAIN obj /\ obj[field] # "" THEN obj[field] ELSE dflt

\* ------------------------------------------------- module-level tables
\* Strings of the sources are written in ASCII: an accented letter loses its
\* accent, except in table keys, where i-acute is written i' .

\* Object.entries(COEFFICIENTS): the entries in declaration order.
LibCOEFFICIENTS ==
    << <<"edad", 19401>>, <<"imc", -448946>>, <<"grado_histologi", 1364830>>,
       <<"tamano_tumoral", -99892>>, <<"infiltracion_mi", 245561>>,
       <<"afectacion_linf", 482800>>, <<"infilt_estr_cervix", 523317>>,
       <<"p53_ihq", -138595>>, <<"recep_est_porcent", -894299>>,
       <<"rece_de_Ppor", 1354039>>, <<"FIGO2023", 55177>>,
       <<"mmr_deficient", 257856>> >>

LibMEANS ==
    [edad |-> 618696, imc |-> 308834, grado_histologi |-> 12087,
     tamano_tumoral |-> 37109, infiltracion_mi |-> 11217,
     afectacion_linf |-> 1913, infilt_estr_cervix |-> 1130, p53_ihq |-> 13478,
     recep_est_porcent |-> 824435, rece_de_Ppor |-> 733913, FIGO2023 |-> 36609,
     mmr_deficient |-> 2087]

LibSTDS ==
    [edad |-> 144514, imc |-> 75748, grado_histologi |-> 4064,
     tamano_tumoral |-> 43651, infiltracion_mi |-> 7706,
     afectacion_linf |-> 3933, infilt_estr_cervix |-> 3675, p53_ihq |-> 7581,
     recep_est_porcent |-> 214485, rece_de_Ppor |-> 247645, FIGO2023 |-> 40537,
     mmr_deficient |-> 4064]

\* name and importance (in hundredths); the description is the feature's own
\* fixed text and is carried as its key.
LibFEATURE_INFO ==
    [grado_histologi |-> [name |-> "Grado Histologico", importance |-> 22],
     afectacion_linf |-> [name |-> "LVSI", importance |-> 15],
     FIGO2023 |-> [name |-> "Estadio FIGO 2023", importance |-> 14],
     infilt_estr_cervix |-> [name |-> "Infiltracion Cervical", importance |-> 12],
     imc |-> [name |-> "IMC", importance |-> 11],
     mmr_deficient |-> [name |-> "MMR Deficiente", importance |-> 10],
     rece_de_Ppor |-> [name |-> "Receptores PR", importance |-> 8],
     recep_est_porcent |-> [name |-> "Receptores ER", importance |-> 5],
     infiltracion_mi |-> [name |-> "Infiltracion Miometrial", importance |-> 4],
     tamano_tumoral |-> [name |-> "Tamano Tumoral", importance |-> 3],
     edad |-> [name |-> "Edad", importance |-> 2],
     p53_ihq |-> [name |-> "p53 IHQ", importance |-> 1]]

LibParams ==
    [COEFFICIENTS |-> LibCOEFFICIENTS,
     INTERCEPT |-> -1018616,
     MEANS |-> LibMEANS,
     STDS |-> LibSTDS,
     FEATURE_INFO |-> LibFEATURE_INFO,
     GRADO_MAP |-> [grado1 |-> 1, grado2 |-> 2],
     INFILTRACION_MAP |-> [sin |-> 0, menor50 |-> 1, mayor50 |-> 2, serosa |-> 3],
     LVSI_MAP |-> [no |-> 0, si |-> 1],
     CERVIX_MAP |-> [no |-> 0, glandular |-> 1, estroma |-> 2],
     P53_MAP |-> [normal |-> 1, aberrante |-> 2, nodisponible |-> 3],
     MMR_MAP |-> [proficient |-> 0, deficient |-> 1, unknown |-> 0],
     FIGO_MAP |-> [IA |-> 1, IB |-> 2, IC |-> 3, II |-> 4, IIIA |-> 5, IIIB |-> 6,
                   IIIC1 |-> 7, IIIC2 |-> 8, IVA |-> 9, IVB |-> 10]]

AltCOEFFICIENTS ==
    << <<"edad", -137000>>, <<"imc", -828000>>, <<"grado_histologi", 850000>>,
       <<"tamano_tumoral", 442000>>, <<"infiltracion_mi", 1632000>>,
       <<"afectacion_linf", 492000>>, <<"infilt_estr_cervix", 352000>>,
       <<"p53_ihq", -75000>>, <<"recep_est_porcent", -467000>>,
       <<"rece_de_Ppor", -593000>>, <<"FIGO2023", 618000>> >>

AltMEANS ==
    [edad |-> 618700, imc |-> 308800, grado_histologi |-> 12100,
     tamano_tumoral |-> 37100, infiltracion_mi |-> 11200,
     afectacion_linf |-> 1900, infilt_estr_cervix |-> 1100, p53_ihq |-> 13500,
     recep_est_porcent |-> 824400, rece_de_Ppor |-> 733900, FIGO2023 |-> 36600]

AltSTDS ==
    [edad |-> 144500, imc |-> 75700, grado_histologi |-> 4100,
     tamano_tumoral |-> 43700, infiltracion_mi |-> 7700,
     afectacion_linf |-> 3900, infilt_estr_cervix |-> 3700, p53_ihq |-> 7600,
     recep_est_porcent |-> 214500, rece_de_Ppor |-> 247600, FIGO2023 |-> 40500]

AltFEATURE_INFO ==
    [grado_histologi |-> [name |-> "Grado Histologico", importance |-> 22],
     tamano_tumoral |-> [name |-> "Tamano Tumoral", importance |-> 15],
     FIGO2023 |-> [name |-> "Estadio FIGO 2023", importance |-> 15],
     imc |-> [name |-> "IMC", importance |-> 13],
     afectacion_linf |-> [name |-> "Invasion Linfovascular (LVSI)", importance |-> 10],
     edad |-> [name |-> "Edad", importance |-> 6],
     rece_de_Ppor |-> [name |-> "Receptores Progesterona", importance |-> 5],
     infiltracion_mi |-> [name |-> "Infiltracion Miometrial", importance |-> 5],
     infilt_estr_cervix |-> [name |-> "Infiltracion Cervical", importance |-> 4],
     recep_est_porcent |-> [name |-> "Receptores Estrogenos", importance |-> 4],
     p53_ihq |-> [name |-> "p53", importance |-> 2],
     mmr_deficient |-> [name |-> "Mismatch Repair (MMR)", importance |-> 5]]

AltParams ==
    [COEFFICIENTS |-> AltCOEFFICIENTS,
     INTERCEPT |-> 163000,
     MEANS |-> AltMEANS,
     STDS |-> AltSTDS,
     FEATURE_INFO |-> AltFEATURE_INFO,
     GRADO_MAP |-> ("Grado 1" :> 1) @@ ("Grado 2" :> 2) @@ [grado1 |-> 1, grado2 |-> 2],
     LVSI_MAP |-> ("No" :> 0) @@ ("Si'" :> 1) @@ [no |-> 0, si |-> 1],
     CERVIX_MAP |-> [No |-> 0, Glandular |-> 1, Estroma |-> 2,
                     no |-> 0, glandular |-> 1, estroma |-> 2],
     P53_MAP |-> ("Wild-type" :> 1) @@
                 [Aberrante |-> 2, normal |-> 1, aberrante |-> 2, mutado |-> 2],
     MMR_MAP |-> [Proficiente |-> 0, Deficiente |-> 1, proficient |-> 0, deficient |-> 1],
     FIGO_MAP |-> [IA |-> 1, IB |-> 2, II |-> 3, IIIA |-> 5, IIIB |-> 6,
                   IIIC1 |-> 7, IIIC2 |-> 8, IVA |-> 9, IVB |-> 10]]

\* The tables a source declares.
Tables(v) == IF v = "lib" THEN LibParams ELSE AltParams

\* ------------------------------------------------------------ strings
\* String.prototype.toLowerCase and includes work on the characters of a
\* string: Chars gives them for the spellings the model feeds to
\* getMyometrialValue (the sign for "greater or equal" is the one character
\* ">=", o-acute is "o'").
Chars ==
    [sin |-> <<"s", "i", "n">>,
     menor50 |-> <<"m", "e", "n", "o", "r", "5", "0">>,
     mayor50 |-> <<"m", "a", "y", "o", "r", "5", "0">>,
     serosa |-> <<"s", "e", "r", "o", "s", "a">>,
     Serosa |-> <<"S", "e", "r", "o", "s", "a">>,
     otro |-> <<"o", "t", "r", "o">>,
     constructor |-> <<"c", "o", "n", "s", "t", "r", "u", "c", "t", "o", "r">>]
    @@ ("" :> <<>>)
    @@ ("Sin infiltracio'n" :> <<"S", "i", "n", " ", "i", "n", "f", "i", "l", "t",
                                 "r", "a", "c", "i", "o'", "n">>)
    @@ ("<50%" :> <<"<", "5", "0", "%">>)
    @@ (">=50%" :> <<">=", "5", "0", "%">>)

UpperCase == <<"A", "B", "C", "D", "E", "F", "G", "H", "I", "J", "K", "L", "M",
               "N", "O", "P", "Q", "R", "S", "T", "U", "V", "W", "X", "Y", "Z">>
LowerCase == <<"a", "b", "c", "d", "e", "f", "g", "h", "i", "j", "k", "l", "m",
               "n", "o", "p", "q", "r", "s", "t", "u", "v", "w", "x", "y", "z">>

toLowerCase(cs) ==
    [i \in 1..Len(cs) |->
        IF \E k \in 1..Len(UpperCase) : UpperCase[k] = cs[i]
        THEN LowerCase[CHOOSE k \in 1..Len(UpperCase) : UpperCase[k] = cs[i]]
        ELSE cs[i]]

includes(cs, needle) ==
    \E i \in 0..(Len(cs) - Len(needle)) : SubSeq(cs, i + 1, i + Len(needle)) = needle

\* ------------------------------------------------------- the scorer
\* 1 / (1 + Math.exp(-x)).  Math.exp(t) is the fraction num/den: e^-u for
\* u >= 0 is computed in units of PS by halving (e^-u = 2^-k e^-r, u = k ln 2 + r)
\* and the Taylor series of e^-r; it underflows to 0 as a double does, only
\* sooner (beyond u = 18.4 instead of 745).
RECURSIVE TaylorSum(_, _, _)
TaylorSum(r, n, term) ==
    IF n > TaylorTerms \/ term = 0 THEN 0
    ELSE term + TaylorSum(r, n + 1, -MulDiv(term, r, n * E6))

ExpNeg(u) ==
    LET ln2 == 693147
        k == u \div ln2
    IN  IF k >= 30 THEN 0
        ELSE (TaylorSum(u % ln2, 1, PS) + ((2^k) \div 2)) \div (2^k)

MathExp(t) ==
    IF t <= 0 THEN [num |-> ExpNeg(-t), den |-> PS]
    ELSE [num |-> PS, den |-> ExpNeg(t)]

sigmoid(x) ==
    IF ~IsNum(x) THEN NaN
    ELSE LET e == MathExp(-x.v)
         IN  \* 1 / (1 + num/den) = den / (den + num); den = 0 is e = Infinity
             Num(MulDiv(e.den, PS, e.den + e.num))

\* A standardisation with the difference taken the other way round.
standardizeReversed(value, mean, std) ==
    LET x == ToNumber(value)
    IN  IF ~IsNum(x) \/ std = 0 THEN NaN
        ELSE Num(MulDiv(mean - x.v, E6, std))

\* (value - mean) / std in E6; a zero std is outside the tables of both sources
standardize(value, mean, std) ==
    LET x == ToNumber(value)
    IN  IF ~IsNum(x) \/ std = 0 THEN NaN
        ELSE Num(MulDiv(x.v - mean, E6, std))

getMyometrialValue(val) ==
    LET v == toLowerCase(Chars[val])
    IN  IF \/ includes(v, <<"s", "i", "n">>)
           \/ includes(v, <<"<", "5", "0">>)
           \/ includes(v, <<"m", "e", "n", "o", "r", "5", "0">>) THEN 0
        ELSE IF \/ includes(v, <<">=", "5", "0">>)
                \/ includes(v, <<"m", "a", "y", "o", "r", "5", "0">>) THEN 1
        ELSE IF includes(v, <<"s", "e", "r", "o", "s", "a">>) THEN 1
        ELSE 0

\* const numericData = { ... } of riskCalculator.ts
LibNumericData(p, d) ==
    [edad |-> Num(d.edad * 1000),
     imc |-> Num(d.imc * 1000),
     grado_histologi |-> Or(Get(p.GRADO_MAP, d.gradoHistologico), Num(1 * E4)),
     tamano_tumoral |-> Num(d.tamanoTumoral * 1000),
     infiltracion_mi |-> Or(Get(p.INFILTRACION_MAP, d.infiltracionMiometrial), Num(1 * E4)),
     afectacion_linf |-> Or(Get(p.LVSI_MAP, d.lvsi), Num(0)),
     infilt_estr_cervix |-> Or(Get(p.CERVIX_MAP, d.infiltracionCervical), Num(0)),
     p53_ihq |-> Or(Get(p.P53_MAP, d.p53), Num(1 * E4)),
     recep_est_porcent |-> Num(d.receptoresEstrogenos * 1000),
     rece_de_Ppor |-> Num(d.receptoresProgesterona * 1000),
     FIGO2023 |-> Or(Get(p.FIGO_MAP, d.estadioFIGO), Num(1 * E4)),
     mmr_deficient |-> Or(Get(p.MMR_MAP, StrOr(d, "mmrStatus", "unknown")), Num(0))]

\* const numericData = { ... } of part_001
AltNumericData(p, d) ==
    [edad |-> Num(d.edad * 1000),
     imc |-> Num(d.imc * 1000),
     grado_histologi |->
        Or(Get(p.GRADO_MAP, StrOr(d, "gradoHistologico", StrOr(d, "grado", "grado1"))),
           Num(1 * E4)),
     tamano_tumoral |-> Num(d.tamanoTumoral * 1000),
     infiltracion_mi |-> Num(getMyometrialValue(d.infiltracionMiometrial) * E4),
     afectacion_linf |-> Or(Get(p.LVSI_MAP, d.lvsi), Num(0)),
     infilt_estr_cervix |-> Or(Get(p.CERVIX_MAP, d.infiltracionCervical), Num(0)),
     p53_ihq |-> Or(Get(p.P53_MAP, d.p53), Num(1 * E4)),
     recep_est_porcent |-> Num(d.receptoresEstrogenos * 1000),
     rece_de_Ppor |-> Num(d.receptoresProgesterona * 1000),
     FIGO2023 |-> Or(Get(p.FIGO_MAP, d.estadioFIGO), Num(1 * E4)),
     mmr_deficient |-> Or(Get(p.MMR_MAP, StrOr(d, "mmrStatus", "unknown")), Num(0))]

NumericData(v, p, d) == IF v = "lib" THEN LibNumericData(p, d) ELSE AltNumericData(p, d)

\* A template literal `${num}${text}` or `text (${str})`; a plain string has
\* num = Undefined and str = "".
Phrase(text, num, str) == [text |-> text, num |-> num, str |-> str]

\* [a0, a1, ...][value] || "N/A": value indexes the array by its number
ArrayAt(arr, value) ==
    IF IsNum(value) /\ value.v % E4 = 0 /\ value.v \div E4 \in 0..(Len(arr) - 1)
       /\ arr[(value.v \div E4) + 1] # ""
    THEN arr[(value.v \div E4) + 1]
    ELSE "N/A"

getDisplayValue(feature, value, d) ==
    CASE feature = "grado_histologi" ->
            Phrase(IF StrictEq(value, Num(2 * E4)) THEN "Grado 2 (Alto)" ELSE "Grado 1 (Bajo)",
                   Undefined, "")
      [] feature = "FIGO2023" -> Phrase("", Undefined, d.estadioFIGO)
      [] feature = "afectacion_linf" ->
            Phrase(IF StrictEq(value, Num(1 * E4)) THEN "Si" ELSE "No", Undefined, "")
      [] feature = "infiltracion_mi" ->
            Phrase(ArrayAt(<<"Sin infiltracion", "<50%", ">=50%", "Serosa">>, value),
                   Undefined, "")
      [] feature = "infilt_estr_cervix" ->
            Phrase(ArrayAt(<<"No", "Glandular", "Estroma">>, value), Undefined, "")
      [] feature = "p53_ihq" ->
            Phrase(ArrayAt(<<"", "Normal", "Aberrante", "No disponible">>, value),
                   Undefined, "")
      [] feature = "mmr_deficient" ->
            Phrase(IF StrictEq(value, Num(1 * E4)) THEN "Deficiente" ELSE "Proficiente",
                   Undefined, "")
      [] feature = "edad" -> Phrase(" anos", value, "")
      [] feature = "imc" -> Phrase(" kg/m2", value, "")
      [] feature = "tamano_tumoral" -> Phrase(" cm", value, "")
      [] feature \in {"recep_est_porcent", "rece_de_Ppor"} -> Phrase("%", value, "")
      [] OTHER -> Phrase("", value, "")

\* A tag that counts the thresholds themselves as positive and negative
DirectionInclusive(contribution) ==
    IF Ge(contribution, Num(E6 \div 10)) THEN "positive"
    ELSE IF Ge(Num(-(E6 \div 10)), contribution) THEN "negative"
    ELSE "neutral"

\* contribution > 0.1 ? "positive" : contribution < -0.1 ? "negative" : "neutral"
Direction(contribution) ==
    IF Gt(contribution, Num(E6 \div 10)) THEN "positive"
    ELSE IF Lt(contribution, Num(-(E6 \div 10))) THEN "negative"
    ELSE "neutral"

\* One pass of the loop over Object.entries(COEFFICIENTS): the term added to
\* the logit, and whether FEATURE_INFO lets it into the list.
Term(p, nd, entry) ==
    LET feature == entry[1]
        coef == entry[2]
        value == IF feature \in DOMAIN nd THEN nd[feature] ELSE Undefined
        standardized ==
            IF feature \in DOMAIN p.MEANS /\ feature \in DOMAIN p.STDS
            THEN standardize(value, p.MEANS[feature], p.STDS[feature])
            ELSE NaN
    IN  [feature |-> feature,
         value |-> value,
         contribution |-> IF IsNum(standardized)
                          THEN Num(MulDiv(coef, standardized.v, E6)) ELSE NaN]

\* Variant: FEATURE_INFO keyed by another spelling of one feature, so that the
\* lookup FEATURE_INFO["edad"] finds nothing.
HasInfoKeyMismatch(p, feature) == feature \in DOMAIN p.FEATURE_INFO \ {"edad"}

\* if (!info) continue;
HasInfo(p, feature) == feature \in DOMAIN p.FEATURE_INFO

Pushed(p, d, term) ==
    [feature |-> term.feature,
     name |-> p.FEATURE_INFO[term.feature].name,
     value |-> term.value,
     displayValue |-> getDisplayValue(term.feature, term.value, d),
     contribution |-> term.contribution,
     normalizedContribution |-> Num(0),
     direction |-> Direction(term.contribution),
     description |-> term.feature,
     importance |-> p.FEATURE_INFO[term.feature].importance]

\* A loop that passes over the features whose coefficient is below 0.05
TermsOfLargeCoefficients(p, nd) ==
    LET Large(e) == Abs(e[2]) >= E6 \div 20
        selected == SelectSeq(p.COEFFICIENTS, Large)
    IN  [i \in 1..Len(selected) |-> Term(p, nd, selected[i])]

\* The terms of the loop, in the order of Object.entries(COEFFICIENTS)
Terms(p, nd) == [i \in 1..Len(p.COEFFICIENTS) |-> Term(p, nd, p.COEFFICIENTS[i])]

\* let logit = INTERCEPT; ... logit += contribution;
RECURSIVE SumFrom(_, _, _)
SumFrom(acc, terms, i) ==
    IF i > Len(terms) THEN acc
    ELSE SumFrom(Add(acc, terms[i].contribution), terms, i + 1)

\* contributions.push({...}) for the features FEATURE_INFO knows
RECURSIVE PushFrom(_, _, _, _)
PushFrom(p, d, terms, i) ==
    IF i > Len(terms) THEN <<>>
    ELSE IF HasInfo(p, terms[i].feature)
         THEN <<Pushed(p, d, terms[i])>> \o PushFrom(p, d, terms, i + 1)
         ELSE PushFrom(p, d, terms, i + 1)

\* Math.max(...contributions.map(c => Math.abs(c.contribution)), 0.001):
\* NaN as soon as one argument is NaN
RECURSIVE MathMax(_, _, _)
MathMax(acc, cs, i) ==
    IF i > Len(cs) THEN acc
    ELSE LET a == MathAbs(cs[i].contribution)
         IN  IF ~IsNum(acc) \/ ~IsNum(a) THEN NaN
             ELSE MathMax(Num(Max(acc.v, a.v)), cs, i + 1)

\* Math.round((c.contribution / maxAbsContribution) * 50 + 50)
Normalized(contribution, maxAbs) ==
    IF ~IsNum(contribution) \/ ~IsNum(maxAbs) THEN NaN
    ELSE LET ratio == MulDiv(contribution.v, E6, maxAbs.v)
         IN  Num((ratio * 50 + 50 * E6 + E6 \div 2) \div E6)

\* contributions.sort((a, b) => Math.abs(b.contribution) - Math.abs(a.contribution)):
\* a stable sort; a comparator result of NaN counts as 0.
GoesBefore(x, y) == Gt(MathAbs(x.contribution), MathAbs(y.contribution))

RECURSIVE InsertSorted(_, _)
InsertSorted(sorted, x) ==
    IF sorted = <<>> THEN <<x>>
    ELSE IF GoesBefore(x, sorted[Len(sorted)])
         THEN InsertSorted(SubSeq(sorted, 1, Len(sorted) - 1), x) \o <<sorted[Len(sorted)]>>
         ELSE sorted \o <<x>>

RECURSIVE SortFrom(_, _, _)
SortFrom(sorted, cs, i) ==
    IF i > Len(cs) THEN sorted ELSE SortFrom(InsertSorted(sorted, cs[i]), cs, i + 1)

\* Variant: the tier taken from the rounded percentage (10.0, 25.0, 50.0) instead
\* of the probability.
RiskLevelOfPercentage(probability) ==
    LET tenths == (probability.v + (PS \div 2000)) \div (PS \div 1000)
    IN  IF ~IsNum(probability) THEN "very-high"
        ELSE IF tenths < 100 THEN "low"
        ELSE IF tenths < 250 THEN "intermediate"
        ELSE IF tenths < 500 THEN "high"
        ELSE "very-high"

\* if (probability < 0.10) ... else if (probability < 0.25) ... else if
\* (probability < 0.50) ... else ...
RiskLevel(probability) ==
    IF Lt(probability, Num(PS \div 10)) THEN "low"
    ELSE IF Lt(probability, Num(PS \div 4)) THEN "intermediate"
    ELSE IF Lt(probability, Num(PS \div 2)) THEN "high"
    ELSE "very-high"

RiskLabel(riskLevel) ==
    CASE riskLevel = "low" -> "Riesgo Bajo"
      [] riskLevel = "intermediate" -> "Riesgo Intermedio"
      [] riskLevel = "high" -> "Riesgo Alto"
      [] OTHER -> "Riesgo Muy Alto"

\* the array literal each branch assigns to recommendations
TierRecommendations(riskLevel) ==
    CASE riskLevel = "low" ->
            <<"Seguimiento clinico estandar cada 6 meses durante 2 anos",
              "Citologia vaginal anual",
              "No requiere tratamiento adyuvante",
              "Educacion sobre sintomas de alarma">>
      [] riskLevel = "intermediate" ->
            <<"Considerar braquiterapia vaginal adyuvante (ESGO 2025)",
              "Seguimiento cada 3-4 meses durante 2 anos",
              "Ecografia o TC pelvica cada 6-12 meses",
              "Marcadores tumorales si elevados al diagnostico">>
      [] riskLevel = "high" ->
            <<"Radioterapia pelvica externa +- braquiterapia (ESGO 2025)",
              "Quimioterapia adyuvante (carboplatino/paclitaxel) secuencial",
              "Seguimiento intensivo cada 3 meses",
              "TC toraco-abdomino-pelvica cada 3-6 meses",
              "Derivacion a comite de tumores ginecologicos">>
      [] OTHER ->
            <<"Tratamiento multimodal obligatorio (RT + QT)",
              "Quimioterapia sistemica con carboplatino/paclitaxel",
              "Radioterapia pelvica con campos extendidos segun ESGO 2025",
              "Seguimiento mensual durante el primer ano",
              "Considerar ensayos clinicos con inmunoterapia",
              "Evaluacion multidisciplinar urgente">>

\* if (numericData.mmr_deficient === 1) recommendations.push(...)
\* The addendum put in front of the tier's list
RecommendationsAddendumFirst(riskLevel, nd) ==
    IF StrictEq(nd.mmr_deficient, Num(1 * E4))
    THEN <<"MMR deficiente: considerar inmunoterapia (pembrolizumab) si recurrencia">>
         \o TierRecommendations(riskLevel)
    ELSE TierRecommendations(riskLevel)

Recommendations(riskLevel, nd) ==
    IF StrictEq(nd.mmr_deficient, Num(1 * E4))
    THEN Append(TierRecommendations(riskLevel),
                "MMR deficiente: considerar inmunoterapia (pembrolizumab) si recurrencia")
    ELSE TierRecommendations(riskLevel)

generateRiskFactors(nd, d) ==
    LET If(c, x) == IF c THEN <<x>> ELSE <<>>
        riskFactors ==
            If(StrictEq(nd.grado_histologi, Num(2 * E4)),
               Phrase("Grado histologico alto (Grado 2)", Undefined, ""))
            \o If(Ge(ToNumber(nd.FIGO2023), Num(5 * E4)),
                  Phrase("Estadio FIGO avanzado", Undefined, d.estadioFIGO))
            \o If(Gt(nd.tamano_tumoral, Num(5 * E4)),
                  Phrase("Tamano tumoral grande (cm)", nd.tamano_tumoral, ""))
            \o If(StrictEq(nd.afectacion_linf, Num(1 * E4)),
                  Phrase("Invasion linfovascular presente (LVSI+)", Undefined, ""))
            \o If(Ge(ToNumber(nd.infiltracion_mi), Num(2 * E4)),
                  Phrase("Infiltracion miometrial profunda (>=50%)", Undefined, ""))
            \o If(StrictEq(nd.infilt_estr_cervix, Num(2 * E4)),
                  Phrase("Infiltracion estromal cervical", Undefined, ""))
            \o If(StrictEq(nd.p53_ihq, Num(2 * E4)), Phrase("p53 aberrante", Undefined, ""))
            \o If(StrictEq(nd.mmr_deficient, Num(1 * E4)),
                  Phrase("MMR deficiente (dMMR)", Undefined, ""))
            \o If(Lt(nd.recep_est_porcent, Num(10 * E4)),
                  Phrase("Receptores de estrogenos bajos (<10%)", Undefined, ""))
            \o If(Lt(nd.rece_de_Ppor, Num(10 * E4)),
                  Phrase("Receptores de progesterona bajos (<10%)", Undefined, ""))
            \o If(Gt(nd.edad, Num(75 * E4)), Phrase("Edad avanzada (anos)", nd.edad, ""))
            \o If(Ge(nd.imc, Num(35 * E4)), Phrase("Obesidad severa (IMC)", nd.imc, ""))
    IN  IF Len(riskFactors) = 0
        THEN <<Phrase("Sin factores de riesgo significativos identificados", Undefined, "")>>
        ELSE riskFactors

generateModelExplanation(percentage, riskLabel, topFactors, nd) ==
    [percentage |-> percentage,
     riskLabel |-> riskLabel,
     increasing |-> LET inc == SelectSeq(topFactors, LAMBDA f : Gt(f.contribution, Num(0)))
                    IN  [i \in 1..Len(inc) |-> inc[i].name],
     decreasing |-> LET dec == SelectSeq(topFactors, LAMBDA f : Lt(f.contribution, Num(0)))
                    IN  [i \in 1..Len(dec) |-> dec[i].name],
     mmrNote |-> StrictEq(nd.mmr_deficient, Num(1 * E4))]

\* Math.round(probability * 100 * 10) / 10, in tenths of a percent
Percentage(probability) ==
    IF ~IsNum(probability) THEN NaN
    ELSE Num((probability.v + (PS \div 2000)) \div (PS \div 1000))

\* An interval of the same half-width that is not clamped to [0, 100]
ConfidenceIntervalUnclamped(percentage) ==
    LET uncertainty == IF Gt(percentage, Num(200)) /\ Lt(percentage, Num(800))
                       THEN 100 ELSE 50
        ciLower == IF IsNum(percentage) THEN Num(percentage.v - uncertainty) ELSE NaN
        ciUpper == IF IsNum(percentage) THEN Num(percentage.v + uncertainty) ELSE NaN
    IN  <<ciLower, ciUpper>>

\* part_001 only: the estimated confidence interval, in tenths of a percent
ConfidenceInterval(percentage) ==
    LET uncertainty == IF Gt(percentage, Num(200)) /\ Lt(percentage, Num(800))
                       THEN 100 ELSE 50
        ciLower == IF IsNum(percentage) THEN Num(Max(0, percentage.v - uncertainty)) ELSE NaN
        ciUpper == IF IsNum(percentage) THEN Num(Min(1000, percentage.v + uncertainty)) ELSE NaN
    IN  <<ciLower, ciUpper>>

\* calculateRisk(data), one stage per block of its body; each stage hands its
\* locals to the next.  Returned: the object of the return statement.
Returned(v, d, nd, contributions, percentage, riskLevel, ci) ==
    LET base ==
            [percentage |-> percentage,
             riskLevel |-> riskLevel,
             riskLabel |-> RiskLabel(riskLevel),
             riskFactors |-> generateRiskFactors(nd, d),
             recommendations |-> Recommendations(riskLevel, nd),
             factorContributions |-> contributions,
             modelExplanation |->
                generateModelExplanation(percentage, RiskLabel(riskLevel),
                                         SubSeq(contributions, 1, Min(3, Len(contributions))),
                                         nd)]
    IN  IF v = "lib" THEN base
        ELSE [confidenceInterval |-> ci, confidenceText |-> ci] @@ base

\* "Calculate probability" and "Determine risk level"
Classified(v, d, nd, terms, logit, contributions, probability, percentage) ==
    [numericData |-> nd,
     terms |-> terms,
     logit |-> logit,
     probability |-> probability,
     returned |-> Returned(v, d, nd, contributions, percentage, RiskLevel(probability),
                           ConfidenceInterval(percentage))]

Scored(v, d, nd, terms, logit, contributions, probability) ==
    Classified(v, d, nd, terms, logit, contributions, probability, Percentage(probability))

\* "Normalize contributions": the divisor, the display value, the sort
NormalizedWith(pushed, maxAbsContribution) ==
    [i \in 1..Len(pushed) |->
        [pushed[i] EXCEPT !.normalizedContribution =
            Normalized(pushed[i].contribution, maxAbsContribution)]]

Contributions(pushed) ==
    SortFrom(<<>>, NormalizedWith(pushed, MathMax(Num(E6 \div 1000), pushed, 1)), 1)

\* "Calculate individual contributions"
Summed(v, d, nd, terms, logit, contributions) ==
    Scored(v, d, nd, terms, logit, contributions, sigmoid(logit))

Looped(v, p, d, nd, terms) ==
    Summed(v, d, nd, terms, SumFrom(Num(p.INTERCEPT), terms, 1),
           Contributions(PushFrom(p, d, terms, 1)))

Converted(v, p, d, nd) == Looped(v, p, d, nd, Terms(p, nd))

\* Every local of one calculateRisk(data) call, the returned object included.
Score(v, p, d) == Converted(v, p, d, NumericData(v, p, d))

calculateRisk(v, p, d) == Score(v, p, d).returned

\* ------------------------------------------------ callers of the scorer
\* useState<FormData>({...}) of RiskForm: the form before any input
FormInitial ==
    [edad |-> 600, imc |-> 280, gradoHistologico |-> "", tamanoTumoral |-> 30,
     infiltracionMiometrial |-> "", lvsi |-> "", infiltracionCervical |-> "",
     estadioFIGO |-> "", p53 |-> "", mmrStatus |-> "",
     receptoresEstrogenos |-> 800, receptoresProgesterona |-> 700]

PATIENT_EXAMPLES ==
    << [id |-> "low_risk", expectedRecurrence |-> FALSE,
        data |-> [edad |-> 680, imc |-> 311, gradoHistologico |-> "grado1",
                  tamanoTumoral |-> 50, infiltracionMiometrial |-> "menor50",
                  lvsi |-> "no", infiltracionCervical |-> "no", estadioFIGO |-> "IA",
                  p53 |-> "normal", mmrStatus |-> "proficient",
                  receptoresEstrogenos |-> 900, receptoresProgesterona |-> 900]],
       [id |-> "high_risk", expectedRecurrence |-> TRUE,
        data |-> [edad |-> 790, imc |-> 254, gradoHistologico |-> "grado2",
                  tamanoTumoral |-> 30, infiltracionMiometrial |-> "serosa",
                  lvsi |-> "si", infiltracionCervical |-> "no", estadioFIGO |-> "IIIA",
                  p53 |-> "normal", mmrStatus |-> "proficient",
                  receptoresEstrogenos |-> 500, receptoresProgesterona |-> 500]],
       [id |-> "intermediate", expectedRecurrence |-> FALSE,
        data |-> [edad |-> 680, imc |-> 394, gradoHistologico |-> "grado2",
                  tamanoTumoral |-> 25, infiltracionMiometrial |-> "menor50",
                  lvsi |-> "no", infiltracionCervical |-> "estroma", estadioFIGO |-> "II",
                  p53 |-> "normal", mmrStatus |-> "proficient",
                  receptoresEstrogenos |-> 800, receptoresProgesterona |-> 100]] >>

\* The observations a caller starts from, and the values it may put in a field
\* (the ends of the documented numeric domains, the options of the form, the
\* empty string, a value no table has, and a name every object inherits).
BaseObservations ==
    {FormInitial} \cup {PATIENT_EXAMPLES[i].data : i \in 1..Len(PATIENT_EXAMPLES)}

FieldValues ==
    [edad |-> {180, 1000},
     imc |-> {150, 600},
     tamanoTumoral |-> {0, 200},
     receptoresEstrogenos |-> {0, 1000},
     receptoresProgesterona |-> {0, 1000},
     gradoHistologico |-> {"grado2", "otro", "constructor"},
     infiltracionMiometrial |-> {"sin", "serosa"},
     lvsi |-> {"si", ""},
     infiltracionCervical |-> {"estroma"},
     estadioFIGO |-> {"IC", "IVB"},
     p53 |-> {"normal", "nodisponible"},
     mmrStatus |-> {"unknown", "deficient"}]

NumericFields ==
    {"edad", "imc", "tamanoTumoral", "receptoresEstrogenos", "receptoresProgesterona"}

\* BatchValidation is not mounted.
BatchIdle ==
    /\ testSet = <<>>
    /\ memo = Null
    /\ filter = "all"
    /\ search = ""
    /\ filteredResults = <<>>
    /\ runs = 0

\* RiskForm is not mounted, and no contribution list is under study.
FormIdle ==
    /\ riskForm = Null
    /\ onSubmit = Null

ListIdle == listing = Null

\* Neither the Index page nor a RiskGauge is mounted.
PageIdle ==
    /\ page = Null
    /\ gauge = Null

Init ==
    /\ ver \in {"lib", "alt"}
    /\ params = Tables(ver)
    /\ data \in BaseObservations
    /\ result = Null
    /\ locals = Null
    /\ scored = Null
    /\ first = Null
    /\ edits = 0
    /\ panel = Null
    /\ tiering = Null
    /\ BatchIdle
    /\ FormIdle
    /\ ListIdle
    /\ PageIdle

\* A scorer that keeps its logit in the module-level INTERCEPT between calls.
ReturnsAccumulating(s) ==
    /\ scored # data
    /\ result' = s.returned
    /\ locals' = [numericData |-> s.numericData, terms |-> s.terms,
                  logit |-> s.logit, probability |-> s.probability]
    /\ scored' = data
    /\ first' = IF first = Null THEN [data |-> data, result |-> s.returned] ELSE first
    /\ params' = [params EXCEPT !.INTERCEPT = s.logit.v]
    /\ UNCHANGED <<ver, data, edits, panel, tiering, batchVars, formVars, listing, page, gauge>>

\* calculateRisk(data), on an observation other than the one scored last: reads
\* the tables and data, writes neither
Returns(s) ==
    /\ scored # data
    /\ result' = s.returned
    /\ locals' = [numericData |-> s.numericData, terms |-> s.terms,
                  logit |-> s.logit, probability |-> s.probability]
    /\ scored' = data
    /\ first' = IF first = Null THEN [data |-> data, result |-> s.returned] ELSE first
    /\ UNCHANGED <<ver, params, data, edits, panel, tiering, batchVars, formVars, listing, page, gauge>>

Call == Returns(Score(ver, params, data))

\* The caller builds another observation: one field of a copy is replaced.
Edit(field, value) ==
    /\ edits < MaxEdits
    /\ scored = data
    /\ field \in DOMAIN data
    /\ data[field] # value
    /\ data' = [data EXCEPT ![field] = value]
    /\ edits' = edits + 1
    /\ UNCHANGED <<ver, params, result, locals, scored, first, panel, tiering, batchVars, formVars, listing, page, gauge>>

\* mmrStatus is optional in part_001's FormData: an observation without it
Omit ==
    /\ edits < MaxEdits
    /\ scored = data
    /\ "mmrStatus" \in DOMAIN data
    /\ data' = [f \in DOMAIN data \ {"mmrStatus"} |-> data[f]]
    /\ edits' = edits + 1
    /\ UNCHANGED <<ver, params, result, locals, scored, first, panel, tiering, batchVars, formVars, listing, page, gauge>>

\* The caller takes an unmodified copy of the first observation it scored
\* ({ ...originalFormData }).
Recall ==
    /\ first # Null
    /\ scored = data
    /\ data # first.data
    /\ data' = first.data
    /\ UNCHANGED <<ver, params, result, locals, scored, first, edits, panel, tiering, batchVars, formVars, listing, page, gauge>>

\* ------------------------------------------------ the tier classifier
\* The probabilities the classifier is tried on: TierGrid + 1 evenly spaced
\* values of [0, 1], and each threshold with its two neighbours.
Probabilities ==
    {Num(MulDiv(k, PS, TierGrid)) : k \in 0..TierGrid}
    \cup {Num(b + e) : b \in {PS \div 10, PS \div 4, PS \div 2}, e \in {-1, 0, 1}}

\* No observation is held and nothing is scored.
ScorerIdle ==
    /\ data = FormInitial
    /\ result = Null
    /\ locals = Null
    /\ scored = Null
    /\ first = Null
    /\ edits = 0

InitTier ==
    /\ ver \in {"lib", "alt"}
    /\ params = Tables(ver)
    /\ ScorerIdle
    /\ panel = Null
    /\ tiering \in {[probability |-> pr, percentage |-> Null, riskLevel |-> "", riskLabel |-> ""] :
                       pr \in Probabilities}
    /\ BatchIdle
    /\ FormIdle
    /\ ListIdle
    /\ PageIdle

\* const percentage = ...; if (probability < 0.10) { riskLevel = ...; riskLabel = ... } ...
Classify ==
    /\ tiering # Null
    /\ tiering.riskLevel = ""
    /\ tiering' = [tiering EXCEPT !.percentage = Percentage(tiering.probability),
                                  !.riskLevel = RiskLevel(tiering.probability),
                                  !.riskLabel = RiskLabel(RiskLevel(tiering.probability))]
    /\ UNCHANGED <<ver, params, scorerVars, panel, batchVars, formVars, listing, page, gauge>>

NextTier == Classify

SpecTier == InitTier /\ [][NextTier]_vars

\* ------------------------------------------------ batch validation
\* The cases test_set.json may hold (the file is not among the sources): each
\* example observation with either outcome.  followUpMonths plays no part.
CasePool ==
    {[actualRecurrence |-> a, data |-> PATIENT_EXAMPLES[i].data] :
        a \in BOOLEAN, i \in 1..Len(PATIENT_EXAMPLES)}

\* The test sets: every list of at most MaxCohort cases, numbered from 1.
Cohorts ==
    UNION {{[i \in 1..n |-> [id |-> i,
                             actualRecurrence |-> c[i].actualRecurrence,
                             data |-> c[i].data]] : c \in [1..n -> CasePool]} :
           n \in 0..MaxCohort}

\* The filter buttons (the "matrix" button is part_006's) and search texts
Filters == {"all", "correct", "incorrect", "recurrence", "matrix"}
Searches == {"", "1", "TP", "high"}

\* The characters of the strings the search compares
Letters ==
    [TP |-> <<"T", "P">>, TN |-> <<"T", "N">>, FP |-> <<"F", "P">>, FN |-> <<"F", "N">>,
     low |-> <<"l", "o", "w">>,
     intermediate |-> <<"i", "n", "t", "e", "r", "m", "e", "d", "i", "a", "t", "e">>,
     high |-> <<"h", "i", "g", "h">>]
    @@ ("very-high" :> <<"v", "e", "r", "y", "-", "h", "i", "g", "h">>)
    @@ ("" :> <<>>)
    @@ ("1" :> <<"1">>)

\* id.toString(), for the ids of Cohorts
IdString(id) == <<<<"0", "1", "2", "3", "4", "5", "6", "7", "8", "9">>[id + 1]>>

\* const predictedRecurrence = risk.percentage > 25
PredictedRecurrence(percentage) == Gt(percentage, Num(250))

\* Variant: the tags of the two kinds of error exchanged.
TypeOfExchanged(isCorrect, predictedRecurrence) ==
    IF isCorrect THEN (IF predictedRecurrence THEN "TP" ELSE "TN")
    ELSE (IF predictedRecurrence THEN "FN" ELSE "FP")

\* if (isCorrect) { type = predictedRecurrence ? "TP" : "TN" } else { ... "FP" : "FN" }
TypeOf(isCorrect, predictedRecurrence) ==
    IF isCorrect THEN (IF predictedRecurrence THEN "TP" ELSE "TN")
    ELSE (IF predictedRecurrence THEN "FP" ELSE "FN")

\* The object the map callback returns for case c, given calculateRisk's result
Tagged(c, risk, predictedRecurrence) ==
    [id |-> c.id,
     actualRecurrence |-> c.actualRecurrence,
     data |-> c.data,
     predictedRisk |-> risk.percentage,
     predictedLevel |-> risk.riskLevel,
     predictedRecurrence |-> predictedRecurrence,
     isCorrect |-> (predictedRecurrence = c.actualRecurrence),
     type |-> TypeOf(predictedRecurrence = c.actualRecurrence, predictedRecurrence)]

Predicted(c, risk) == Tagged(c, risk, PredictedRecurrence(risk.percentage))

\* testSetData.map(c => { const risk = calculateRisk(c.data); ... })
Results(v, p, set) == [i \in 1..Len(set) |-> Predicted(set[i], calculateRisk(v, p, set[i].data))]

\* The callback of results.filter(...)
Shown(r, f, txt) ==
    IF f = "correct" /\ ~r.isCorrect THEN FALSE
    ELSE IF f = "incorrect" /\ r.isCorrect THEN FALSE
    ELSE IF f = "recurrence" /\ ~r.actualRecurrence THEN FALSE
    ELSE IF txt # ""
         THEN \/ includes(IdString(r.id), Letters[txt])
              \/ includes(toLowerCase(Letters[r.type]), toLowerCase(Letters[txt]))
              \/ includes(Letters[r.predictedLevel], toLowerCase(Letters[txt]))
    ELSE TRUE

\* const filteredResults = results.filter(...)
Filtered(rs, f, txt) == SelectSeq(rs, LAMBDA r : Shown(r, f, txt))

\* results.filter(r => r.isCorrect).length, results.filter(r => r.type === tag).length
CountCorrect(rs) == Len(SelectSeq(rs, LAMBDA r : r.isCorrect))
CountType(rs, tag) == Len(SelectSeq(rs, LAMBDA r : r.type = tag))

\* n / d for two counts, in units of 10^-6; 0 / 0 is NaN.  (n / 0 with n > 0,
\* Infinity, does not arise: every numerator here counts part of what its
\* denominator counts.)
Ratio(n, d) == IF d = 0 THEN NaN ELSE Num(MulDiv(n, E6, d))

\* 2 * (precision * sensitivity) / (precision + sensitivity)
HarmonicMean(precision, sensitivity) ==
    IF precision.v + sensitivity.v = 0 THEN NaN
    ELSE Num(MulDiv(2 * MulDiv(precision.v, sensitivity.v, E6), E6,
                    precision.v + sensitivity.v))

\* The object the metrics callback returns, from its counts
Derived(total, correct, tp, tn, fp, fn, sensitivity, precision) ==
    [total |-> total, correct |-> correct,
     accuracy |-> Ratio(correct, total),
     sensitivity |-> sensitivity,
     specificity |-> Or(Ratio(tn, tn + fp), Num(0)),
     precision |-> precision,
     f1 |-> Or(HarmonicMean(precision, sensitivity), Num(0)),
     tp |-> tp, tn |-> tn, fp |-> fp, fn |-> fn]

Counted(total, correct, tp, tn, fp, fn) ==
    Derived(total, correct, tp, tn, fp, fn,
            Or(Ratio(tp, tp + fn), Num(0)), Or(Ratio(tp, tp + fp), Num(0)))

Metrics(rs) ==
    Counted(Len(rs),
            CountCorrect(rs),
            CountType(rs, "TP"), CountType(rs, "TN"),
            CountType(rs, "FP"), CountType(rs, "FN"))

\* Variant: a memo that computes on every render.
NotMemoizedNever(cached) == TRUE

\* useMemo(..., []): the callback runs on the first render only
NotMemoized(cached) == cached = Null

\* One render of BatchValidation with state (f, txt): the two memos (metrics
\* depends on [results], so it is computed when results is), then the filtered
\* list.  rs is the result list of this render.
Rendered(f, txt, fresh, rs) ==
    /\ filter' = f
    /\ search' = txt
    /\ memo' = [results |-> rs, metrics |-> IF fresh THEN Metrics(rs) ELSE memo.metrics]
    /\ runs' = IF fresh THEN runs + Len(testSet) ELSE runs
    /\ filteredResults' = Filtered(rs, f, txt)
    /\ UNCHANGED <<ver, params, scorerVars, panel, tiering, testSet, formVars, listing, page, gauge>>

Render(f, txt, fresh) ==
    Rendered(f, txt, fresh, IF fresh THEN Results(ver, params, testSet) ELSE memo.results)

InitBatch ==
    /\ ver \in {"lib", "alt"}
    /\ params = Tables(ver)
    /\ ScorerIdle
    /\ panel = Null
    /\ tiering = Null
    /\ testSet \in Cohorts
    /\ memo = Null
    /\ filter = "all"
    /\ search = ""
    /\ filteredResults = <<>>
    /\ runs = 0
    /\ FormIdle
    /\ ListIdle
    /\ PageIdle

\* The first render
MountBatch ==
    /\ memo = Null
    /\ Render(filter, search, NotMemoized(memo))

\* onClick={() => setFilter(f)}, and the render it causes
setFilter(f) ==
    /\ memo # Null
    /\ f # filter
    /\ Render(f, search, NotMemoized(memo))

\* onChange={(e) => setSearch(e.target.value)}, and the render it causes
setSearch(txt) ==
    /\ memo # Null
    /\ txt # search
    /\ Render(filter, txt, NotMemoized(memo))

NextBatch ==
    \/ MountBatch
    \/ \E f \in Filters : setFilter(f)
    \/ \E txt \in Searches : setSearch(txt)

SpecBatch == InitBatch /\ [][NextBatch]_vars

\* ------------------------------------------------ the what-if panel
\* The <SelectItem value=...> options of RiskForm, per categorical field.
FormOptions ==
    [gradoHistologico |-> {"grado1", "grado2"},
     infiltracionMiometrial |-> {"sin", "menor50", "mayor50", "serosa"},
     lvsi |-> {"no", "si"},
     infiltracionCervical |-> {"no", "glandular", "estroma"},
     estadioFIGO |-> {"IA", "IB", "IC", "II", "IIIA", "IIIB", "IIIC1", "IIIC2", "IVA", "IVB"},
     p53 |-> {"normal", "aberrante", "nodisponible"},
     mmrStatus |-> {"proficient", "deficient", "unknown"}]

\* The fields handleSubmit of Index refuses to leave empty.
RequiredFields ==
    {"gradoHistologico", "infiltracionMiometrial", "lvsi", "infiltracionCervical",
     "estadioFIGO", "p53"}

\* An observation the page can hold as formData: chosen in the form's selects
\* and let through by handleSubmit.
Submitted(d) ==
    \A f \in DOMAIN FormOptions :
        IF f \in DOMAIN d
        THEN d[f] \in FormOptions[f] \/ (d[f] = "" /\ f \notin RequiredFields)
        ELSE f \notin RequiredFields

\* The controls of WhatIfAnalysis and the values each can send to updateField
\* (of the two sliders: both ends and one step inside).
WhatIfControls ==
    [gradoHistologico |-> {"grado1", "grado2"},
     lvsi |-> {"si", "no"},
     estadioFIGO |-> {"IA", "IB", "II", "IIIA", "IIIB", "IVA"},
     infiltracionMiometrial |-> {"sin", "menor50", "mayor50", "serosa"},
     mmrStatus |-> {"deficient", "proficient"},
     tamanoTumoral |-> {0, 75, 150},
     receptoresProgesterona |-> {0, 50, 1000}]

\* The props RiskResults passes to WhatIfAnalysis
originalFormData == data
originalRisk == result.percentage

\* calculateRisk(modifiedData).percentage, as the effect computes it
Recomputed(modifiedData) == calculateRisk(ver, params, modifiedData).percentage

\* const riskChange = newRisk - originalRisk
riskChange(newRisk) == Sub(newRisk, originalRisk)

\* The page after handleSubmit has scored one of the examples.
InitWhatIf ==
    /\ ver \in {"lib", "alt"}
    /\ params = Tables(ver)
    /\ data \in {PATIENT_EXAMPLES[i].data : i \in 1..Len(PATIENT_EXAMPLES)}
    /\ Submitted(data)
    /\ result = calculateRisk(ver, params, data)
    /\ locals = Null
    /\ scored = data
    /\ first = Null
    /\ edits = 0
    /\ panel = Null
    /\ tiering = Null
    /\ BatchIdle
    /\ FormIdle
    /\ ListIdle
    /\ PageIdle

\* WhatIfAnalysis mounts (RiskResults renders it when it has a result and a
\* formData): useState({ ...originalFormData }), useState(originalRisk); the
\* effect is yet to run.
Mount ==
    /\ panel = Null
    /\ result # Null
    /\ data # Null
    /\ panel' = [modifiedData |-> originalFormData, newRisk |-> originalRisk, stale |-> TRUE]
    /\ UNCHANGED <<ver, params, scorerVars, tiering, batchVars, formVars, listing, page, gauge>>

\* useEffect(() => { setNewRisk(calculateRisk(modifiedData).percentage) }, [modifiedData])
Effect ==
    /\ panel # Null
    /\ panel.stale
    /\ panel' = [panel EXCEPT !.newRisk = Recomputed(panel.modifiedData), !.stale = FALSE]
    /\ UNCHANGED <<ver, params, scorerVars, tiering, batchVars, formVars, listing, page, gauge>>

\* An update that writes the field into the object it was given as a prop
updateFieldInPlace(field, value) ==
    /\ panel # Null
    /\ edits < MaxUpdates
    /\ IF field \in DOMAIN panel.modifiedData THEN panel.modifiedData[field] # value ELSE TRUE
    /\ panel' = [panel EXCEPT !.modifiedData = (field :> value) @@ panel.modifiedData,
                              !.stale = TRUE]
    /\ data' = (field :> value) @@ panel.modifiedData
    /\ edits' = edits + 1
    /\ UNCHANGED <<ver, params, result, locals, scored, first, tiering, batchVars, formVars, listing, page, gauge>>

\* setModifiedData((prev) => ({ ...prev, [field]: value }))
updateField(field, value) ==
    /\ panel # Null
    /\ edits < MaxUpdates
    /\ IF field \in DOMAIN panel.modifiedData THEN panel.modifiedData[field] # value ELSE TRUE
    /\ panel' = [panel EXCEPT !.modifiedData = (field :> value) @@ panel.modifiedData,
                              !.stale = TRUE]
    /\ edits' = edits + 1
    /\ UNCHANGED <<ver, params, data, result, locals, scored, first, tiering, batchVars, formVars, listing, page, gauge>>

NextWhatIf ==
    \/ Mount
    \/ Effect
    \/ \E field \in DOMAIN WhatIfControls :
          \E value \in WhatIfControls[field] : updateField(field, value)

SpecWhatIf == InitWhatIf /\ [][NextWhatIf]_vars

\* ------------------------------------------------------------ RiskForm
\* Two sources of the component: part_002 keeps the three text inputs in
\* inputValues and validates them; part_003 has type="number" inputs bound to
\* formData.  Numbers are in tenths, texts are sequences of characters.
MaxEvents == 3

Digits == <<"0", "1", "2", "3", "4", "5", "6", "7", "8", "9">>
IsDigit(c) == \E k \in 1..Len(Digits) : Digits[k] = c
DigitValue(c) == (CHOOSE k \in 1..Len(Digits) : Digits[k] = c) - 1

\* The index after the digits that start at i
RECURSIVE DigitsEnd(_, _)
DigitsEnd(cs, i) ==
    IF i <= Len(cs) /\ IsDigit(cs[i]) THEN DigitsEnd(cs, i + 1) ELSE i

RECURSIVE NatOf(_, _, _, _)
NatOf(cs, i, j, acc) ==
    IF i >= j THEN acc ELSE NatOf(cs, i + 1, j, acc * 10 + DigitValue(cs[i]))

RECURSIVE SkipSpaces(_, _)
SkipSpaces(cs, i) ==
    IF i <= Len(cs) /\ cs[i] = " " THEN SkipSpaces(cs, i + 1) ELSE i

RECURSIVE LastNonSpace(_, _)
LastNonSpace(cs, j) ==
    IF j >= 1 /\ cs[j] = " " THEN LastNonSpace(cs, j - 1) ELSE j

\* String.prototype.trim
trim(cs) == SubSeq(cs, SkipSpaces(cs, 1), LastNonSpace(cs, Len(cs)))

\* /^\d*\.?\d*$/.test(value)
test(cs) ==
    LET a == DigitsEnd(cs, 1)
        b == IF a <= Len(cs) /\ cs[a] = "." THEN a + 1 ELSE a
    IN  DigitsEnd(cs, b) = Len(cs) + 1

\* The digits of a number text from index i on: where the integer digits end,
\* where the fraction ends, and the value in tenths (digits after the first
\* decimal are dropped: the texts tried have at most one).
Mantissa(cs, i, j) ==
    LET hasDot == j <= Len(cs) /\ cs[j] = "."
        k == IF hasDot THEN DigitsEnd(cs, j + 1) ELSE j
    IN  [digits |-> (j - i) + (IF hasDot THEN k - (j + 1) ELSE 0),
         stop |-> k,
         tenths |-> NatOf(cs, i, j, 0) * 10
                    + (IF hasDot /\ k > j + 1 THEN DigitValue(cs[j + 1]) ELSE 0)]

\* An exponent part e<digits> at index k, or 0
Exponent(cs, k) ==
    IF k <= Len(cs) /\ cs[k] \in {"e", "E"} /\ DigitsEnd(cs, k + 1) > k + 1
    THEN NatOf(cs, k + 1, DigitsEnd(cs, k + 1), 0)
    ELSE 0

Signed(cs, s, n) == IF s <= Len(cs) /\ cs[s] = "-" THEN -n ELSE n

AfterSign(cs, s) == IF s <= Len(cs) /\ cs[s] \in {"+", "-"} THEN s + 1 ELSE s

ParsedFloat(cs, s, m) ==
    IF m.digits = 0 THEN NaN
    ELSE Num(Signed(cs, s, m.tenths * 10^Exponent(cs, m.stop)))

\* parseFloat(value): leading white space, sign, digits, fraction, exponent
parseFloat(cs) ==
    ParsedFloat(cs, SkipSpaces(cs, 1),
                Mantissa(cs, AfterSign(cs, SkipSpaces(cs, 1)),
                         DigitsEnd(cs, AfterSign(cs, SkipSpaces(cs, 1)))))

ParsedInt(cs, s, i, j) ==
    IF j = i THEN NaN ELSE Num(Signed(cs, s, NatOf(cs, i, j, 0) * 10))

\* parseInt(value): leading white space, sign, digits
parseInt(cs) ==
    ParsedInt(cs, SkipSpaces(cs, 1), AfterSign(cs, SkipSpaces(cs, 1)),
              DigitsEnd(cs, AfterSign(cs, SkipSpaces(cs, 1))))

RECURSIVE DigitsOf(_)
DigitsOf(n) ==
    IF n < 10 THEN <<Digits[n + 1]>> ELSE Append(DigitsOf(n \div 10), Digits[(n % 10) + 1])

\* Number.prototype.toString of a non-negative number of tenths
toString(n) ==
    IF n % 10 = 0 THEN DigitsOf(n \div 10)
    ELSE DigitsOf(n \div 10) \o <<".", Digits[(n % 10) + 1]>>

\* The value a type="number" input reports: the text when it is a
\* floating-point number, the empty string otherwise.
NumberInputValue(cs) ==
    LET i == IF Len(cs) >= 1 /\ cs[1] = "-" THEN 2 ELSE 1
        m == Mantissa(cs, i, DigitsEnd(cs, i))
        e == IF m.stop <= Len(cs) /\ cs[m.stop] \in {"e", "E"}
             THEN DigitsEnd(cs, m.stop + 1) ELSE m.stop
    IN  IF m.digits > 0 /\ e = Len(cs) + 1 /\ cs[Len(cs)] # "." /\ cs[Len(cs)] \notin {"e", "E"}
        THEN cs ELSE <<>>

TextFields == {"edad", "imc", "tamanoTumoral"}

Rejected(prev, field, message) ==
    [valid |-> FALSE, errors |-> (field :> message) @@ prev]

\* validateNumber(value, field), with the errors of the render the handler
\* closes over and the errors the queued updates have produced so far: a
\* rejection adds to the latter, an acceptance replaces them by the former
\* without the field.
validateNumber(cs, field, rendered, prev) ==
    IF Len(trim(cs)) = 0 THEN Rejected(prev, field, "Este campo es requerido")
    ELSE IF ~test(cs) THEN Rejected(prev, field, "Debe ser un numero valido")
    ELSE IF IsNaN(parseFloat(cs)) THEN Rejected(prev, field, "Debe ser un numero valido")
    ELSE IF field = "edad" /\ ~(parseFloat(cs).v \in 180..1000)
    THEN Rejected(prev, field, "La edad debe estar entre 18 y 100")
    ELSE IF field = "imc" /\ ~(parseFloat(cs).v \in 150..600)
    THEN Rejected(prev, field, "El IMC debe estar entre 15 y 60")
    ELSE IF field = "tamanoTumoral" /\ ~(parseFloat(cs).v \in 0..200)
    THEN Rejected(prev, field, "El tamano debe estar entre 0 y 20 cm")
    ELSE [valid |-> TRUE, errors |-> [f \in DOMAIN rendered \ {field} |-> rendered[f]]]

\* What the user types into the three inputs: the text, and the number it
\* denotes (NaN when it denotes none).
Typed ==
    [edad |-> {[text |-> <<>>, number |-> NaN],
               [text |-> <<"a", "b", "c">>, number |-> NaN],
               [text |-> <<"1", "7">>, number |-> Num(170)],
               [text |-> <<"1", "8">>, number |-> Num(180)],
               [text |-> <<"1", "0", "1">>, number |-> Num(1010)],
               [text |-> <<"4", "5", ".", "7">>, number |-> Num(457)]},
     imc |-> {[text |-> <<" ">>, number |-> NaN],
              [text |-> <<".">>, number |-> NaN],
              [text |-> <<"1", "4", ".", "9">>, number |-> Num(149)],
              [text |-> <<"1", "5">>, number |-> Num(150)],
              [text |-> <<"6", "0", ".", "1">>, number |-> Num(601)]},
     tamanoTumoral |-> {[text |-> <<"-", "5">>, number |-> Num(-50)],
                        [text |-> <<"0">>, number |-> Num(0)],
                        [text |-> <<"2", "0">>, number |-> Num(200)],
                        [text |-> <<"2", "0", ".", "1">>, number |-> Num(201)],
                        [text |-> <<"1", "e", "2">>, number |-> Num(1000)]}]

\* useState of part_002, and of part_003
Mounted(source) ==
    IF source = "part_002"
    THEN [source |-> source, formData |-> FormInitial,
          inputValues |-> [edad |-> <<"6", "0">>, imc |-> <<"2", "8">>,
                           tamanoTumoral |-> <<"3">>],
          errors |-> <<>>, event |-> [type |-> "mount"], events |-> 0]
    ELSE [source |-> source, formData |-> FormInitial,
          event |-> [type |-> "mount"], events |-> 0]

\* The effect of part_002 on a new data prop
WithData(form, d) ==
    [form EXCEPT !.formData = d,
                 !.inputValues = [edad |-> toString(d.edad), imc |-> toString(d.imc),
                                  tamanoTumoral |-> toString(d.tamanoTumoral)],
                 !.errors = <<>>]

\* Index.handleSubmit lets the data through to setFormData and calculateRisk
Complete(d) == \A f \in RequiredFields : d[f] # ""

InitForm ==
    /\ ver = "lib"
    /\ params = Tables(ver)
    /\ ScorerIdle
    /\ panel = Null
    /\ tiering = Null
    /\ BatchIdle
    /\ ListIdle
    /\ PageIdle
    /\ riskForm \in {Mounted("part_002"), Mounted("part_003")}
    /\ onSubmit = Null

FormFrame == UNCHANGED <<ver, params, scorerVars, panel, tiering, batchVars, listing, page, gauge>>

Handled(form, event) == [form EXCEPT !.event = event, !.events = @ + 1]

\* part_002: onChange={(e) => handleTextChange(field, e.target.value)}
TextChanged(field, typed, v) ==
    /\ riskForm' =
          Handled([riskForm EXCEPT
                      !.inputValues[field] = typed.text,
                      !.errors = v.errors,
                      !.formData[field] = IF v.valid THEN parseFloat(typed.text).v ELSE @],
                  [type |-> "change", field |-> field, typed |-> typed])
    /\ UNCHANGED onSubmit
    /\ FormFrame

handleTextChange(field, typed) ==
    /\ riskForm # Null
    /\ riskForm.source = "part_002"
    /\ riskForm.events < MaxEvents
    /\ TextChanged(field, typed,
                   validateNumber(typed.text, field, riskForm.errors, riskForm.errors))

\* part_003: onChange={(e) => updateField(field, parseInt(e.target.value) || 0)},
\* parseFloat for imc and tamanoTumoral
onChange(field, typed) ==
    /\ riskForm # Null
    /\ riskForm.source = "part_003"
    /\ riskForm.events < MaxEvents
    /\ riskForm' =
          Handled([riskForm EXCEPT
                      !.formData[field] =
                         Or(IF field = "edad" THEN parseInt(NumberInputValue(typed.text))
                            ELSE parseFloat(NumberInputValue(typed.text)),
                            Num(0)).v],
                  [type |-> "change", field |-> field, typed |-> typed])
    /\ UNCHANGED onSubmit
    /\ FormFrame

\* part_002: the three validations, then onSubmit(formData) when all passed
\* and the rendered errors are empty; Index.handleSubmit hands complete data
\* back as the data prop.
Validated(v1, v2, v3) ==
    LET ok == v1.valid /\ v2.valid /\ v3.valid /\ DOMAIN riskForm.errors = {}
        after == [riskForm EXCEPT !.errors = v3.errors]
    IN  /\ riskForm' =
              Handled(IF ok /\ Complete(riskForm.formData)
                      THEN WithData(after, riskForm.formData) ELSE after,
                      [type |-> "submit"])
        /\ onSubmit' = IF ok THEN riskForm.formData ELSE onSubmit
        /\ FormFrame

ValidatedImc(v1, v2) ==
    Validated(v1, v2,
              validateNumber(riskForm.inputValues.tamanoTumoral, "tamanoTumoral",
                             riskForm.errors, v2.errors))

ValidatedEdad(v1) ==
    ValidatedImc(v1, validateNumber(riskForm.inputValues.imc, "imc",
                                    riskForm.errors, v1.errors))

\* The browser's check of min and max before it sends the submit event
checkValidity(d) ==
    /\ d.edad \in 180..1000
    /\ d.imc \in 150..600
    /\ d.tamanoTumoral \in 0..200

handleSubmit ==
    /\ riskForm # Null
    /\ riskForm.events < MaxEvents
    /\ IF riskForm.source = "part_002"
       THEN ValidatedEdad(validateNumber(riskForm.inputValues.edad, "edad",
                                         riskForm.errors, riskForm.errors))
       ELSE /\ checkValidity(riskForm.formData)
            /\ riskForm' = Handled(riskForm, [type |-> "submit"])
            /\ onSubmit' = riskForm.formData
            /\ FormFrame

\* Index.handleSelectPatient(data): setFormData(data); handleSubmit(data)
handleSelectPatient(d) ==
    /\ riskForm # Null
    /\ riskForm.events < MaxEvents
    /\ riskForm' = Handled(IF riskForm.source = "part_002" THEN WithData(riskForm, d)
                           ELSE riskForm,
                           [type |-> "select"])
    /\ onSubmit' = d
    /\ FormFrame

NextForm ==
    \/ \E field \in TextFields : \E typed \in Typed[field] : handleTextChange(field, typed)
    \/ \E field \in TextFields : \E typed \in Typed[field] : onChange(field, typed)
    \/ handleSubmit
    \/ \E i \in 1..Len(PATIENT_EXAMPLES) : handleSelectPatient(PATIENT_EXAMPLES[i].data)

SpecForm == InitForm /\ [][NextForm]_vars

\* ------------------------------------------- the contribution list alone
\* The loop's pushes, then the normalisation and the sort, on contributions
\* chosen freely: the thresholds of direction and their neighbours, zero, a
\* value below the 0.001 floor, and two pairs of equal magnitude.
MaxList == 3

ContributionValues ==
    {-E6, -(E6 \div 10) - 1, -(E6 \div 10), 0, E6 \div 2000,
     E6 \div 10, (E6 \div 10) + 1, E6}

InitList ==
    /\ ver \in {"lib", "alt"}
    /\ params = Tables(ver)
    /\ ScorerIdle
    /\ panel = Null
    /\ tiering = Null
    /\ BatchIdle
    /\ FormIdle
    /\ PageIdle
    /\ listing = [pushed |-> <<>>, sorted |-> FALSE, contributions |-> <<>>]

ListFrame == UNCHANGED <<ver, params, scorerVars, panel, tiering, batchVars, formVars, page, gauge>>

\* One pass of the loop, for the next feature of COEFFICIENTS
Push(c) ==
    /\ listing # Null
    /\ ~listing.sorted
    /\ Len(listing.pushed) < MaxList
    /\ listing' =
          [listing EXCEPT !.pushed =
              Append(@, Pushed(params, data,
                               [feature |-> params.COEFFICIENTS[Len(@) + 1][1],
                                value |-> Num(0),
                                contribution |-> Num(c)]))]
    /\ ListFrame

\* "Normalize contributions" and the sort, after the loop
Normalize ==
    /\ listing # Null
    /\ ~listing.sorted
    /\ listing' = [listing EXCEPT !.contributions = Contributions(listing.pushed),
                                  !.sorted = TRUE]
    /\ ListFrame

NextList ==
    \/ \E c \in ContributionValues : Push(c)
    \/ Normalize

SpecList == InitList /\ [][NextList]_vars

\* ------------------------------------------------------ the Index page
\* In this part data and result are the page's useState cells formData and
\* result (null before the first submission), panel is the WhatIfAnalysis that
\* RiskResults renders from them, and page holds the rest:
\*   isCalculating  useState(false)
\*   timers         the 800 ms timers still running, oldest first, each with
\*                  the data its handleSubmit call was given
\*   toast          the last toast shown
\*   clicks         how many times a handler of the page was invoked
\*   afterReset     handleReset ran and no handleSubmit went through since
\*   baselineEdits  the value of edits when formData or result was last set
MaxClicks == 3

\* What RiskForm can hand to onSubmit: the untouched form, and a filled one
\* (the first example with age 33 and BMI 38.7)
FormSubmissions ==
    {FormInitial, [PATIENT_EXAMPLES[1].data EXCEPT !.edad = 330, !.imc = 387]}

\* Index imports calculateRisk from "@/lib/riskCalculator".
InitIndex ==
    /\ ver = "lib"
    /\ params = Tables(ver)
    /\ data = Null
    /\ result = Null
    /\ locals = Null
    /\ scored = Null
    /\ first = Null
    /\ edits = 0
    /\ panel = Null
    /\ tiering = Null
    /\ BatchIdle
    /\ FormIdle
    /\ ListIdle
    /\ gauge = Null
    /\ page = [isCalculating |-> FALSE, timers |-> <<>>, toast |-> "", clicks |-> 0,
               afterReset |-> FALSE, baselineEdits |-> 0]

IndexFrame ==
    UNCHANGED <<ver, params, locals, scored, first, edits, tiering, batchVars, formVars,
                listing, gauge>>

\* handleSubmit past its validation, up to the await: setIsCalculating(true),
\* setFormData(data), setTimeout(resolve, 800)
Accepted(d) ==
    /\ data' = d
    /\ page' = [page EXCEPT !.isCalculating = TRUE, !.timers = Append(@, d),
                            !.clicks = @ + 1, !.afterReset = FALSE,
                            !.baselineEdits = edits]
    /\ UNCHANGED <<result, panel>>
    /\ IndexFrame

\* handleSubmit on an empty required field: toast.error(...); return
Refused ==
    /\ page' = [page EXCEPT !.toast = "error", !.clicks = @ + 1]
    /\ UNCHANGED <<result, panel>>
    /\ IndexFrame

\* Index.handleSubmit as RiskForm's onSubmit: the submit button is disabled
\* while isLoading={isCalculating}
IndexHandleSubmit(d) ==
    /\ page # Null
    /\ ~page.isCalculating
    /\ page.clicks < MaxClicks
    /\ IF Complete(d) THEN Accepted(d) ELSE Refused /\ UNCHANGED data

\* Index.handleSelectPatient as onSelectPatient of PatientExamples:
\* setFormData(data); handleSubmit(data)
IndexHandleSelectPatient(d) ==
    /\ page # Null
    /\ page.clicks < MaxClicks
    /\ IF Complete(d) THEN Accepted(d) ELSE Refused /\ data' = d

\* The oldest timer expires and its handleSubmit call goes on after the
\* await: setResult(calculateRisk(data)), setIsCalculating(false)
resolve ==
    /\ page # Null
    /\ page.timers # <<>>
    /\ result' = calculateRisk(ver, params, Head(page.timers))
    /\ page' = [page EXCEPT !.timers = Tail(@), !.isCalculating = FALSE,
                            !.toast = "success", !.baselineEdits = edits]
    /\ UNCHANGED <<data, panel>>
    /\ IndexFrame

\* onReset of RiskResults, which is rendered while result is set; RiskResults
\* and its WhatIfAnalysis unmount
handleReset ==
    /\ page # Null
    /\ result # Null
    /\ page.clicks < MaxClicks
    /\ result' = Null
    /\ data' = Null
    /\ panel' = Null
    /\ page' = [page EXCEPT !.afterReset = TRUE, !.clicks = @ + 1]
    /\ IndexFrame

NextIndex ==
    \/ \E d \in FormSubmissions : IndexHandleSubmit(d)
    \/ \E i \in 1..Len(PATIENT_EXAMPLES) : IndexHandleSelectPatient(PATIENT_EXAMPLES[i].data)
    \/ resolve
    \/ handleReset
    \/ Mount
    \/ Effect
    \/ \E value \in WhatIfControls.lvsi : updateField("lvsi", value)

SpecIndex == InitIndex /\ [][NextIndex]_vars

\* ------------------------------------------------------------ RiskGauge
\* gauge holds the component's prop, state and pending work:
\*   percentage          the prop of the last render
\*   animatedPercentage  useState(0)
\*   effectDue           a render changed percentage (or mounted the gauge) and
\*                       its effect, with the cleanup of the one before, has
\*                       not run yet
\*   timer               the 100 ms timer of the last effect run: whether it is
\*                       still set, and the percentage its callback captured
\*   fired               what the last timer callback set, and the percentage
\*                       prop at that moment
\*   changes             how many times the prop changed
MaxChanges == 3

\* The percentages the parent passes (tenths of a percent)
GaugePercentages == {Num(49), Num(250), Num(987)}

InitGauge ==
    /\ ver = "lib"
    /\ params = Tables(ver)
    /\ ScorerIdle
    /\ panel = Null
    /\ tiering = Null
    /\ BatchIdle
    /\ FormIdle
    /\ ListIdle
    /\ page = Null
    /\ gauge \in {[percentage |-> pct, animatedPercentage |-> Num(0), effectDue |-> TRUE,
                   timer |-> [set |-> FALSE, value |-> Num(0)],
                   fired |-> [value |-> Num(0), percentage |-> Num(0)],
                   changes |-> 0] : pct \in GaugePercentages}

GaugeFrame ==
    UNCHANGED <<ver, params, scorerVars, panel, tiering, batchVars, formVars, listing, page>>

\* The parent renders the gauge with another percentage.  React runs the
\* effects of a render before it renders again.
GaugeRender(pct) ==
    /\ gauge # Null
    /\ ~gauge.effectDue
    /\ gauge.changes < MaxChanges
    /\ pct # gauge.percentage
    /\ gauge' = [gauge EXCEPT !.percentage = pct, !.effectDue = TRUE, !.changes = @ + 1]
    /\ GaugeFrame

\* After the render: the cleanup of the effect before, clearTimeout(timer),
\* then the effect, timer = setTimeout(() => setAnimatedPercentage(percentage), 100)
GaugeEffect ==
    /\ gauge # Null
    /\ gauge.effectDue
    /\ gauge' = [gauge EXCEPT !.effectDue = FALSE,
                              !.timer = [set |-> TRUE, value |-> gauge.percentage]]
    /\ GaugeFrame

\* The timer expires: setAnimatedPercentage(percentage), with the percentage
\* of the render that set the timer.  A timer that is not cleared yet expires
\* whether or not a later render is waiting for its effect.
GaugeTimer ==
    /\ gauge # Null
    /\ gauge.timer.set
    /\ gauge' = [gauge EXCEPT !.animatedPercentage = gauge.timer.value,
                              !.timer.set = FALSE,
                              !.fired = [value |-> gauge.timer.value,
                                         percentage |-> gauge.percentage]]
    /\ GaugeFrame

NextGauge ==
    \/ \E pct \in GaugePercentages : GaugeRender(pct)
    \/ GaugeEffect
    \/ GaugeTimer

\* An effect that is due runs and a timer that is set expires.
SpecGauge ==
    InitGauge /\ [][NextGauge]_vars /\ WF_vars(GaugeEffect) /\ WF_vars(GaugeTimer)

Next ==
    \/ Call
    \/ \E field \in DOMAIN FieldValues : \E value \in FieldValues[field] : Edit(field, value)
    \/ Omit
    \/ Recall

Spec == Init /\ [][Next]_vars

\* sub is full with some elements left out, the rest in full's order.
RECURSIVE IsSubList(_, _)
IsSubList(sub, full) ==
    IF sub = <<>> THEN TRUE
    ELSE IF full = <<>> THEN FALSE
    ELSE IF Head(sub) = Head(full) THEN IsSubList(Tail(sub), Tail(full))
    ELSE IsSubList(sub, Tail(full))

\* The code table of each categorical field, the feature it fills and the
\* code  || <default>  falls back to.  (part_001 fills infiltracion_mi through
\* getMyometrialValue, whose last return is 0.)
Categoricals(v) ==
    [gradoHistologico |-> [map |-> "GRADO_MAP", feature |-> "grado_histologi", dflt |-> 1],
     lvsi |-> [map |-> "LVSI_MAP", feature |-> "afectacion_linf", dflt |-> 0],
     infiltracionCervical |->
        [map |-> "CERVIX_MAP", feature |-> "infilt_estr_cervix", dflt |-> 0],
     p53 |-> [map |-> "P53_MAP", feature |-> "p53_ihq", dflt |-> 1],
     estadioFIGO |-> [map |-> "FIGO_MAP", feature |-> "FIGO2023", dflt |-> 1],
     mmrStatus |-> [map |-> "MMR_MAP", feature |-> "mmr_deficient", dflt |-> 0]]
    @@ IF v = "lib"
       THEN [infiltracionMiometrial |->
                [map |-> "INFILTRACION_MAP", feature |-> "infiltracion_mi", dflt |-> 1]]
       ELSE <<>>

\* The ranges validateNumber and the receptor inputs accept, in tenths
NumericDomain ==
    [edad |-> 180..1000, imc |-> 150..600, tamanoTumoral |-> 0..200,
     receptoresEstrogenos |-> 0..1000, receptoresProgesterona |-> 0..1000]

InDomain(d) == \A f \in DOMAIN NumericDomain : d[f] \in NumericDomain[f]

\* What two results are compared by: percentage, tier, and each listed
\* factor with its value and contribution.
Outcome(r) ==
    [percentage |-> r.percentage,
     riskLevel |-> r.riskLevel,
     contributions |-> [i \in 1..Len(r.factorContributions) |->
                           [feature |-> r.factorContributions[i].feature,
                            value |-> r.factorContributions[i].value,
                            contribution |-> r.factorContributions[i].contribution]]]

\* The feature each numeric field of the observation fills in numericData
NumericFeature ==
    [edad |-> "edad", imc |-> "imc", tamanoTumoral |-> "tamano_tumoral",
     receptoresEstrogenos |-> "recep_est_porcent",
     receptoresProgesterona |-> "rece_de_Ppor"]

CoefficientOf(p, feature) ==
    LET i == CHOOSE j \in 1..Len(p.COEFFICIENTS) : p.COEFFICIENTS[j][1] = feature
    IN  p.COEFFICIENTS[i][2]

\* x is at least as large as y (two NaN are the same value)
AtLeast(x, y) == (IsNaN(x) /\ IsNaN(y)) \/ Ge(x, y)

\* The values a numeric field is compared at: both ends of its domain
ComparedValues(f) == FieldValues[f]

\* The raw spellings of each myometrial-invasion category a source accepts:
\* the select values, and for getMyometrialValue also the display labels.
MyometrialSpellings(v) ==
    IF v = "lib"
    THEN [sin |-> {"sin"}, menor50 |-> {"menor50"}, mayor50 |-> {"mayor50"},
          serosa |-> {"serosa"}]
    ELSE [sin |-> {"sin", "Sin infiltracio'n"}, menor50 |-> {"menor50", "<50%"},
          mayor50 |-> {"mayor50", ">=50%"}, serosa |-> {"serosa", "Serosa"}]

\* The infiltracion_mi value the scored observation would get with spelling x
MyometrialFeature(x) ==
    NumericData(ver, params, [scored EXCEPT !.infiltracionMiometrial = x]).infiltracion_mi

\* The observation's mismatch-repair status is one MMR_MAP lists as deficient
MMRDeficient(p, d) ==
    /\ "mmrStatus" \in DOMAIN d
    /\ d.mmrStatus \in DOMAIN p.MMR_MAP
    /\ p.MMR_MAP[d.mmrStatus] = 1

TierListLength ==
    [low |-> 4, intermediate |-> 4, high |-> 5] @@ ("very-high" :> 6)

\* Object.keys(COEFFICIENTS)
CoefficientKeys(p) == {p.COEFFICIENTS[i][1] : i \in 1..Len(p.COEFFICIENTS)}

\* The largest absolute contribution of a list, or the floor 0.001
LargestMagnitude(fc) ==
    LET magnitudes == {Abs(fc[i].contribution.v) : i \in 1..Len(fc)} \cup {E6 \div 1000}
    IN  CHOOSE m \in magnitudes : \A x \in magnitudes : x <= m

\* What C18 says of the normalizedContribution fields of a list
NormalizedAsClaimed(fc) ==
    \A i \in 1..Len(fc) :
        LET c == fc[i].contribution
            n == fc[i].normalizedContribution
        IN  /\ IsNum(n)
            /\ n.v \in 0..100
            /\ IsNum(c)
            /\ (c.v = 0) => (n.v = 50)
            /\ (c.v > 0 /\ c.v = LargestMagnitude(fc)) => (n.v = 100)
            /\ (c.v < 0 /\ -c.v = LargestMagnitude(fc)) => (n.v = 0)

\* fc has, for each entry of source, one entry with its feature and
\* contribution, and no other entries
IsPermutationOf(fc, source) ==
    /\ Len(fc) = Len(source)
    /\ \A k \in 1..Len(source) :
          Cardinality({i \in 1..Len(fc) :
                          /\ fc[i].feature = source[k].feature
                          /\ fc[i].contribution = source[k].contribution}) = 1

\* Where COEFFICIENTS declares a feature
Declared(p, feature) ==
    CHOOSE k \in 1..Len(p.COEFFICIENTS) : p.COEFFICIENTS[k][1] = feature

\* What C19 says of the order of a list
OrderedAsClaimed(fc, p) ==
    \A i, j \in 1..Len(fc) :
        i < j =>
            /\ Ge(MathAbs(fc[i].contribution), MathAbs(fc[j].contribution))
            /\ StrictEq(MathAbs(fc[i].contribution), MathAbs(fc[j].contribution))
                  => Declared(p, fc[i].feature) < Declared(p, fc[j].feature)

\* The stages of the form's FIGO select, in stage order
FigoStages == <<"IA", "IB", "IC", "II", "IIIA", "IIIB", "IIIC1", "IIIC2", "IVA", "IVB">>

\* The FIGO2023 value the scored observation would get at a stage
FigoFeature(stage) ==
    NumericData(ver, params, [scored EXCEPT !.estadioFIGO = stage]).FIGO2023

\* ================================================================ claims
\* C1: for every scored observation the logit handed to sigmoid is INTERCEPT plus
\* the sum of the contribution fields of the returned factorContributions, the
\* same value (NaN when a term is NaN); every term the loop added to the logit
\* is in the list exactly once and the list holds nothing else.
C1_LogitIsInterceptPlusContributions ==
    result # Null =>
        LET fc == result.factorContributions
            terms == locals.terms
        IN  /\ locals.probability = sigmoid(locals.logit)
            /\ locals.logit = SumFrom(Num(params.INTERCEPT), fc, 1)
            /\ Len(fc) = Len(terms)
            /\ \A i \in 1..Len(terms) :
                  Cardinality({j \in 1..Len(fc) :
                                  /\ fc[j].feature = terms[i].feature
                                  /\ fc[j].contribution = terms[i].contribution}) = 1

\* An edited observation was scored to a number, every coefficient's term listed,
\* and the list is no longer in the order of the loop.
C1_Witness ==
    /\ result # Null
    /\ edits > 0
    /\ IsNum(locals.logit)
    /\ locals.logit.v # params.INTERCEPT
    /\ Len(result.factorContributions) = Len(params.COEFFICIENTS)
    /\ result.factorContributions[1].feature # params.COEFFICIENTS[1][1]

C3_MetricsAreNumbers ==
    memo # Null =>
        LET mt == memo.metrics
        IN  /\ \A k \in {"accuracy", "sensitivity", "specificity", "precision", "f1"} :
                  IsNum(mt[k])
            /\ (mt.total = 0) => (mt.accuracy = Num(0))
            /\ (mt.tp + mt.fn = 0) => (mt.sensitivity = Num(0))
            /\ (mt.tn + mt.fp = 0) => (mt.specificity = Num(0))
            /\ (mt.tp + mt.fp = 0) => (mt.precision = Num(0))
            /\ (mt.precision.v + mt.sensitivity.v = 0) => (mt.f1 = Num(0))
            /\ (mt.tp + mt.fn = 0) => (mt.accuracy = Or(Ratio(mt.tn, mt.tn + mt.fp), Num(0)))

\* The empty cohort was rendered: accuracy = 0 / 0 is NaN, the other four are 0.
C3_EmptyCohortAccuracyNaN ==
    /\ memo # Null
    /\ testSet = <<>>
    /\ IsNaN(memo.metrics.accuracy)
    /\ \A k \in {"sensitivity", "specificity", "precision", "f1"} : memo.metrics[k] = Num(0)

\* C4: every case has predicted = (percentage > 25) and the one tag its pair
\* (predicted, actual) names: TP (true, true), TN (false, false), FP (true,
\* false), FN (false, true); so TP + TN + FP + FN is the cohort size and the
\* correct count is TP + TN.
C4_OneTagPerCase ==
    memo # Null =>
        LET rs == memo.results
            mt == memo.metrics
        IN  /\ Len(rs) = Len(testSet)
            /\ \A i \in 1..Len(rs) :
                  LET r == rs[i]
                  IN  /\ r.actualRecurrence = testSet[i].actualRecurrence
                      /\ r.predictedRecurrence <=>
                            (IsNum(r.predictedRisk) /\ r.predictedRisk.v > 250)
                      /\ r.type = CASE r.predictedRecurrence /\ r.actualRecurrence -> "TP"
                                    [] ~r.predictedRecurrence /\ ~r.actualRecurrence -> "TN"
                                    [] r.predictedRecurrence /\ ~r.actualRecurrence -> "FP"
                                    [] ~r.predictedRecurrence /\ r.actualRecurrence -> "FN"
            /\ mt.tp + mt.tn + mt.fp + mt.fn = Len(testSet)
            /\ mt.total = Len(testSet)
            /\ mt.correct = mt.tp + mt.tn

\* A cohort with a missed recurrence and a false alarm was tagged.
C4_Witness ==
    /\ memo # Null
    /\ memo.metrics.fn = 1
    /\ memo.metrics.fp = 1
    /\ memo.metrics.correct = 0

\* C8: a change of the filter or of the search text leaves the result list and
\* the metrics as they were and calls calculateRisk not once; and after every
\* render the filtered view is the result list with some entries left out, the
\* others in the same order.
C8_FilterAndSearchOnlyChangeTheView ==
    [][/\ (memo # Null /\ (filter' # filter \/ search' # search)) =>
            /\ memo'.results = memo.results
            /\ memo'.metrics = memo.metrics
            /\ runs' = runs
       /\ (memo' # Null) => IsSubList(filteredResults', memo'.results)]_vars

\* With a filter and a search text set, the view shows some results and hides
\* others, and every calculateRisk call was made by the first render.
C8_Witness ==
    /\ memo # Null
    /\ filter = "incorrect"
    /\ search = "high"
    /\ 0 < Len(filteredResults)
    /\ Len(filteredResults) < Len(memo.results)
    /\ runs = Len(testSet)

\* C5 (as claimed): calculateRisk returns, for numeric fields that are numbers
\* and categorical fields that are any strings (empty, unknown to the tables,
\* mmrStatus absent), a result with percentage, riskLevel, riskLabel,
\* riskFactors, recommendations, factorContributions and modelExplanation; and a
\* categorical value its code table does not list is scored as the field's
\* default code.
C5_TotalWithDefaultCodes ==
    result # Null =>
        /\ {"percentage", "riskLevel", "riskLabel", "riskFactors", "recommendations",
            "factorContributions", "modelExplanation"} \subseteq DOMAIN result
        /\ \A f \in DOMAIN Categoricals(ver) :
              LET c == Categoricals(ver)[f]
              IN  (f \notin DOMAIN scored \/ scored[f] \notin DOMAIN params[c.map])
                     => locals.numericData[c.feature] = Num(c.dflt * E4)

\* gradoHistologico = "constructor" was scored: GRADO_MAP yields the inherited
\* Object function, || 1 keeps it, and the percentage is NaN.
C5_InheritedNameScored ==
    /\ result # Null
    /\ scored.gradoHistologico = "constructor"
    /\ locals.numericData.grado_histologi = Inherited
    /\ IsNaN(result.percentage)
    /\ result.riskLevel = "very-high"

\* C6 (as claimed): an observation with p53 = "nodisponible" or with mmrStatus =
\* "unknown" gets the percentage, tier and contributions of the same
\* observation with that field at its default code (p53 code 1, as "normal";
\* MMR code 0, as "proficient").
C6_NotAvailableIsDefault ==
    result # Null =>
        /\ scored.p53 = "nodisponible" =>
              Outcome(result)
                 = Outcome(calculateRisk(ver, params, [scored EXCEPT !.p53 = "normal"]))
        /\ ("mmrStatus" \in DOMAIN scored /\ scored.mmrStatus = "unknown") =>
              Outcome(result)
                 = Outcome(calculateRisk(ver, params,
                                         [scored EXCEPT !.mmrStatus = "proficient"]))

\* riskCalculator.ts scored p53 = "nodisponible" as code 3.
C6_NotAvailableScoredAsThree ==
    /\ result # Null
    /\ ver = "lib"
    /\ scored.p53 = "nodisponible"
    /\ locals.numericData.p53_ihq = Num(3 * E4)

C10_ProbabilityAndPercentageInRange ==
    (result # Null /\ InDomain(scored)) =>
        /\ IsNum(locals.probability)
        /\ 0 < locals.probability.v
        /\ locals.probability.v < PS
        /\ IsNum(result.percentage)
        /\ 0 <= result.percentage.v
        /\ result.percentage.v <= 1000

\* An observation with in-domain numeric fields was scored with a NaN
\* probability and percentage.
C10_NaNProbability ==
    /\ result # Null
    /\ InDomain(scored)
    /\ IsNaN(locals.probability)
    /\ IsNaN(result.percentage)

\* C11 (as claimed): a categorical value that its code table lists is scored
\* with the code the table gives it, a code of 0 included.
C11_ListedValueGetsItsCode ==
    result # Null =>
        \A f \in DOMAIN Categoricals(ver) :
            LET c == Categoricals(ver)[f]
            IN  (f \in DOMAIN scored /\ scored[f] \in DOMAIN params[c.map])
                   => locals.numericData[c.feature] = Num(params[c.map][scored[f]] * E4)

\* riskCalculator.ts scored infiltracionMiometrial = "sin", listed with code 0,
\* as 1.
C11_SinScoredAsOne ==
    /\ result # Null
    /\ ver = "lib"
    /\ scored.infiltracionMiometrial = "sin"
    /\ params.INFILTRACION_MAP["sin"] = 0
    /\ locals.numericData.infiltracion_mi = Num(1 * E4)

\* C12 (as claimed): over every accepted spelling, the infiltracion_mi value
\* does not decrease from sin to menor50 to mayor50, and serosa has the value
\* of mayor50.
C12_MyometrialOrdinal ==
    result # Null =>
        LET sp == MyometrialSpellings(ver)
        IN  \A a \in sp.sin : \A b \in sp.menor50 : \A c \in sp.mayor50 :
               \A e \in sp.serosa :
                  /\ ~Gt(MyometrialFeature(a), MyometrialFeature(b))
                  /\ ~Gt(MyometrialFeature(b), MyometrialFeature(c))
                  /\ MyometrialFeature(e) = MyometrialFeature(c)

\* riskCalculator.ts scored infiltracionMiometrial = "serosa" as 3, above the 2
\* of mayor50.
C12_SerosaAboveMayor50 ==
    /\ result # Null
    /\ ver = "lib"
    /\ scored.infiltracionMiometrial = "serosa"
    /\ locals.numericData.infiltracion_mi = Num(3 * E4)
    /\ MyometrialFeature("mayor50") = Num(2 * E4)

\* C13: the recommendations returned are the fixed list of the assigned tier (4
\* entries for low, 4 for intermediate, 5 for high, 6 for very-high), followed
\* by the MMR addendum as the one last element exactly when the observation's
\* mismatch-repair status is deficient; nothing else of the observation
\* changes the list.
C13_TierListPlusMMRAddendum ==
    result # Null =>
        LET tier == TierRecommendations(result.riskLevel)
            addendum == "MMR deficiente: considerar inmunoterapia (pembrolizumab) si recurrencia"
            recs == result.recommendations
        IN  /\ Len(tier) = TierListLength[result.riskLevel]
            /\ \A i \in 1..Len(tier) : tier[i] # addendum
            /\ IF MMRDeficient(params, scored)
               THEN recs = Append(tier, addendum)
               ELSE recs = tier

\* An observation with mmrStatus = "deficient" was scored after one without,
\* and its list ends with the addendum.
C13_Witness ==
    /\ result # Null
    /\ first # Null
    /\ ~MMRDeficient(params, first.data)
    /\ MMRDeficient(params, scored)
    /\ Len(result.recommendations) = TierListLength[result.riskLevel] + 1
    /\ Len(first.result.recommendations) = TierListLength[first.result.riskLevel]

\* C14 (as claimed): onSubmit is only ever invoked with edad in [18, 100], imc
\* in [15, 60] and tamanoTumoral in [0, 20]; and an entry that is not a number
\* of the field's domain is rejected with an error for the field while the
\* field of formData keeps its value (it is not clamped, nor replaced).
C14_OnlyValidatedDataSubmitted ==
    /\ [](onSubmit # Null => \A f \in TextFields : onSubmit[f] \in NumericDomain[f])
    /\ [][IF riskForm = Null \/ riskForm' = Null THEN TRUE
          ELSE (riskForm'.events # riskForm.events /\ riskForm'.event.type = "change") =>
                  LET f == riskForm'.event.field
                      n == riskForm'.event.typed.number
                  IN  (~IsNum(n) \/ n.v \notin NumericDomain[f]) =>
                         /\ "errors" \in DOMAIN riskForm'
                         /\ f \in DOMAIN riskForm'.errors
                         /\ riskForm'.formData[f] = riskForm.formData[f]
         ]_vars

\* In part_003 the age input was emptied and formData.edad became 0, with no
\* error kept anywhere.
C14_EmptyEntryBecomesZero ==
    /\ riskForm # Null
    /\ riskForm.source = "part_003"
    /\ riskForm.event.type = "change"
    /\ riskForm.event.field = "edad"
    /\ riskForm.event.typed.text = <<>>
    /\ riskForm.formData.edad = 0
    /\ "errors" \notin DOMAIN riskForm

\* C15: every key of COEFFICIENTS (each declared once) has an entry in MEANS,
\* a non-zero entry in STDS and an entry in FEATURE_INFO; and for every
\* observation scored it has a value in numericData and exactly one entry in
\* factorContributions, which has no other entries: no feature is skipped.
C15_EveryFeatureContributes ==
    LET keys == CoefficientKeys(params)
    IN  /\ Cardinality(keys) = Len(params.COEFFICIENTS)
        /\ \A k \in keys :
              /\ k \in DOMAIN params.MEANS
              /\ k \in DOMAIN params.STDS
              /\ params.STDS[k] # 0
              /\ k \in DOMAIN params.FEATURE_INFO
        /\ result # Null =>
              LET fc == result.factorContributions
              IN  /\ keys \subseteq DOMAIN locals.numericData
                  /\ Len(fc) = Len(params.COEFFICIENTS)
                  /\ \A k \in keys :
                        Cardinality({i \in 1..Len(fc) : fc[i].feature = k}) = 1

\* An observation was scored and its list has an entry for edad, whose
\* coefficient in riskCalculator.ts is 0.019401, with a contribution below 0.1.
C15_Witness ==
    /\ result # Null
    /\ ver = "lib"
    /\ CoefficientOf(params, "edad") < E6 \div 20
    /\ \E i \in 1..Len(result.factorContributions) :
          /\ result.factorContributions[i].feature = "edad"
          /\ result.factorContributions[i].direction = "neutral"

\* C16: no field update of the what-if panel, and no run of its effect, changes
\* the baseline observation (originalFormData) or the baseline result
\* (originalRisk), which stays the percentage calculateRisk gives the baseline;
\* and once the effect has run, newRisk is calculateRisk(modifiedData).percentage
\* of the whole modified observation and the delta shown is newRisk minus
\* originalRisk.
C16_WhatIfLeavesBaseline ==
    /\ [][data' = data /\ result' = result]_vars
    /\ []((panel # Null /\ ~panel.stale) =>
             /\ originalRisk = calculateRisk(ver, params, originalFormData).percentage
             /\ panel.newRisk = calculateRisk(ver, params, panel.modifiedData).percentage
             /\ riskChange(panel.newRisk) = Sub(panel.newRisk, originalRisk))

\* Two fields were updated, the effect has run, and the panel shows a risk
\* other than the baseline's.
C16_Witness ==
    /\ panel # Null
    /\ ~panel.stale
    /\ edits = 2
    /\ Cardinality({f \in DOMAIN data : panel.modifiedData[f] # data[f]}) = 2
    /\ IsNum(riskChange(panel.newRisk))
    /\ riskChange(panel.newRisk) # Num(0)

\* C17: every pushed entry is tagged "positive" exactly when its contribution is
\* above 0.1, "negative" exactly when it is below -0.1, and "neutral"
\* otherwise, so that exactly 0.1 and exactly -0.1 are neutral.
C17_DirectionThresholds ==
    listing # Null =>
        \A i \in 1..Len(listing.pushed) :
            LET e == listing.pushed[i]
            IN  /\ (e.direction = "positive") <=> (e.contribution.v > E6 \div 10)
                /\ (e.direction = "negative") <=> (e.contribution.v < -(E6 \div 10))
                /\ (e.direction = "neutral") <=>
                      (e.contribution.v \in (-(E6 \div 10))..(E6 \div 10))
                /\ e.direction \in {"positive", "negative", "neutral"}

\* Contributions of exactly 0.1 and exactly -0.1 were pushed and tagged
\* neutral, next to one just above 0.1 tagged positive.
C17_Witness ==
    /\ listing # Null
    /\ \E i, j, k \in 1..Len(listing.pushed) :
          /\ listing.pushed[i].contribution = Num(E6 \div 10)
          /\ listing.pushed[i].direction = "neutral"
          /\ listing.pushed[j].contribution = Num(-(E6 \div 10))
          /\ listing.pushed[j].direction = "neutral"
          /\ listing.pushed[k].contribution = Num((E6 \div 10) + 1)
          /\ listing.pushed[k].direction = "positive"

\* C18 (as claimed): for every observation scored, each normalizedContribution
\* is an integer in [0, 100]: 50 for a contribution of 0, 100 for a positive
\* and 0 for a negative contribution whose magnitude is the largest of the list
\* (and at least 0.001); with all contributions 0 the divisor is 0.001 and
\* each is 50.
C18_NormalizedInRange ==
    result # Null => NormalizedAsClaimed(result.factorContributions)

\* gradoHistologico = "constructor" was scored: maxAbsContribution is NaN and
\* so is every normalizedContribution.
C18_NaNNormalized ==
    /\ result # Null
    /\ scored.gradoHistologico = "constructor"
    /\ \A i \in 1..Len(result.factorContributions) :
          IsNaN(result.factorContributions[i].normalizedContribution)
    /\ \E i \in 1..Len(result.factorContributions) :
          IsNum(result.factorContributions[i].contribution)

\* C19 (as claimed): the returned list is a permutation of the loop's
\* per-feature contributions, in order of non-increasing absolute
\* contribution, entries of equal absolute contribution in the order
\* COEFFICIENTS declares their features.
C19_SortedByMagnitudeStably ==
    result # Null =>
        /\ IsPermutationOf(result.factorContributions, locals.terms)
        /\ OrderedAsClaimed(result.factorContributions, params)

\* gradoHistologico = "constructor" was scored: the comparator yields NaN
\* against the NaN entry, and a smaller contribution stays listed before a
\* larger one.
C19_SmallerListedFirst ==
    /\ result # Null
    /\ scored.gradoHistologico = "constructor"
    /\ \E i, j \in 1..Len(result.factorContributions) :
          /\ i < j
          /\ Lt(MathAbs(result.factorContributions[i].contribution),
                MathAbs(result.factorContributions[j].contribution))

\* C20 (as claimed): the ten FIGO 2023 stages the form offers are scored with
\* ten distinct codes that strictly increase with the stage, each stage with
\* the code its table lists for it and none with the fallback.
C20_FigoCodesIncrease ==
    result # Null =>
        /\ \A i \in 1..Len(FigoStages) : FigoStages[i] \in DOMAIN params.FIGO_MAP
        /\ \A i, j \in 1..Len(FigoStages) :
              i < j => Lt(FigoFeature(FigoStages[i]), FigoFeature(FigoStages[j]))

\* part_001 scored estadioFIGO = "IC" with the fallback code 1, the code of IA.
C20_StageICScoredAsIA ==
    /\ result # Null
    /\ ver = "alt"
    /\ scored.estadioFIGO = "IC"
    /\ "IC" \notin DOMAIN params.FIGO_MAP
    /\ locals.numericData.FIGO2023 = Num(1 * E4)
    /\ FigoFeature("IA") = Num(1 * E4)

\* ------------------------------------------- the request of the collaborators
\* GRADO_MAP ... FIGO_MAP of ThemeProvider.tsx ("Mappings from Frontend Strings
\* to Backend Ints")
ApiTables ==
    [GRADO_MAP |-> [grado1 |-> 1, grado2 |-> 2],
     INFILTRACION_MAP |-> [sin |-> 0, menor50 |-> 1, mayor50 |-> 2, serosa |-> 3],
     LVSI_MAP |-> [no |-> 0, si |-> 1],
     CERVIX_MAP |-> [no |-> 0, glandular |-> 1, estroma |-> 2],
     P53_MAP |-> [normal |-> 1, aberrante |-> 2, nodisponible |-> 3],
     FIGO_MAP |-> [IA |-> 1, IB |-> 2, IC |-> 3, II |-> 4, IIIA |-> 5, IIIB |-> 6,
                   IIIC1 |-> 7, IIIC2 |-> 8, IVA |-> 9, IVB |-> 10]]

\* The ApiPatientData that fetchSimilarPatients and fetchSurvivalCurve post
mapFormDataToApi(d) ==
    [edad |-> Num(d.edad * 1000),
     imc |-> Num(d.imc * 1000),
     grado_histologi |-> Or(Get(ApiTables.GRADO_MAP, d.gradoHistologico), Num(1 * E4)),
     tamano_tumoral |-> Num(d.tamanoTumoral * 1000),
     infiltracion_mi |->
        Or(Get(ApiTables.INFILTRACION_MAP, d.infiltracionMiometrial), Num(0)),
     afectacion_linf |-> Or(Get(ApiTables.LVSI_MAP, d.lvsi), Num(0)),
     infilt_estr_cervix |-> Or(Get(ApiTables.CERVIX_MAP, d.infiltracionCervical), Num(0)),
     p53_ihq |-> Or(Get(ApiTables.P53_MAP, d.p53), Num(1 * E4)),
     recep_est_porcent |-> Num(d.receptoresEstrogenos * 1000),
     rece_de_Ppor |-> Num(d.receptoresProgesterona * 1000),
     FIGO2023 |-> Or(Get(ApiTables.FIGO_MAP, d.estadioFIGO), Num(1 * E4))]

\* C21 (as claimed): for every scored observation, each of the eleven features
\* of the collaborators' request has the value calculateRisk used for it.
C21_RequestCarriesScoredValues ==
    result # Null =>
        \A f \in DOMAIN mapFormDataToApi(scored) :
            mapFormDataToApi(scored)[f] = locals.numericData[f]

\* riskCalculator.ts scored an empty or absent-invasion infiltracionMiometrial
\* as 1, and the request for the same observation carries 0.
C21_InvasionRequestedAsZero ==
    /\ result # Null
    /\ ver = "lib"
    /\ scored.infiltracionMiometrial \in {"", "sin"}
    /\ locals.numericData.infiltracion_mi = Num(1 * E4)
    /\ mapFormDataToApi(scored).infiltracion_mi = Num(0)

\* C22 (as claimed): whenever the page holds both a result and a formData, the
\* result is calculateRisk of that formData.
C22_ResultIsOfStoredFormData ==
    (page # Null /\ result # Null /\ data # Null)
        => result = calculateRisk(ver, params, data)

\* While the result of an earlier submission is shown, handleSubmit has stored
\* the formData of the next one: the page shows a result with the formData of
\* another observation.
C22_ResultOfEarlierFormData ==
    /\ page # Null
    /\ result # Null
    /\ data # Null
    /\ page.timers # <<>>
    /\ result.percentage # calculateRisk(ver, params, data).percentage

\* C23 (as claimed): after handleReset, until a handleSubmit call made after it
\* goes through, the stored result and formData are both null.
C23_NullAfterReset ==
    (page # Null /\ page.afterReset) => (result = Null /\ data = Null)

\* A submission was pending when handleReset ran; its timer expired afterwards
\* and set a result, with no formData.
C23_ResultReappeared ==
    /\ page # Null
    /\ page.afterReset
    /\ result # Null
    /\ data = Null

\* C24 (as claimed): isCalculating is true exactly while an accepted submission
\* waits for its delayed result, and a refused handleSubmit call leaves result
\* and isCalculating unchanged.
C24_CalculatingWhilePending ==
    /\ [](page # Null => (page.isCalculating <=> page.timers # <<>>))
    /\ [][(\E d \in FormSubmissions : ~Complete(d) /\ IndexHandleSubmit(d))
             => (result' = result /\ page'.isCalculating = page.isCalculating)]_vars

\* The first of two pending submissions got its result and cleared
\* isCalculating while the second one is still waiting.
C24_IdleWhilePending ==
    /\ page # Null
    /\ ~page.isCalculating
    /\ page.timers # <<>>
    /\ result # Null

\* C25 (as claimed): while the what-if panel is mounted and no what-if field
\* was changed since its baseline was set, the modified observation is the
\* baseline observation and the displayed change is 0.
C25_UntouchedPanelShowsBaseline ==
    (page # Null /\ panel # Null /\ edits = page.baselineEdits)
        => /\ panel.modifiedData = originalFormData
           /\ riskChange(panel.newRisk) = Num(0)

\* A new submission replaced formData, and then result, under the mounted
\* panel: modifiedData is still the earlier observation and the change shown
\* is the difference of the two risks.
C25_PanelKeepsEarlierObservation ==
    /\ page # Null
    /\ panel # Null
    /\ edits = 0
    /\ page.timers = <<>>
    /\ panel.modifiedData # originalFormData
    /\ result = calculateRisk(ver, params, originalFormData)
    /\ riskChange(panel.newRisk) # Num(0)

\* The band the displays derive from a percentage: newRisk < 10 ? green :
\* newRisk < 25 ? yellow : newRisk < 50 ? orange : red (WhatIfAnalysis), and
\* the same thresholds on finalRisk (WaterfallChart); named by the tier each
\* colour stands for.
RiskColour(percentage) ==
    IF Lt(percentage, Num(100)) THEN "low"
    ELSE IF Lt(percentage, Num(250)) THEN "intermediate"
    ELSE IF Lt(percentage, Num(500)) THEN "high"
    ELSE "very-high"

\* C26 (as claimed): for every result the page holds, the tier of the displays'
\* colour band, taken from the rounded percentage, is the returned riskLevel.
C26_ColourBandIsTier ==
    (page # Null /\ result # Null) => RiskColour(result.percentage) = result.riskLevel

\* A probability just below 0.10 was rounded to 10.0 percent: the tier is low
\* and the band is the one of intermediate.
C26_RoundedAcrossThreshold ==
    /\ page # Null
    /\ result # Null
    /\ result.percentage = Num(100)
    /\ result.riskLevel = "low"
    /\ RiskColour(result.percentage) = "intermediate"

\* PatientExamples: isCorrect: patient.expectedRecurrence ? result.percentage > 25
\*                                                        : result.percentage < 25
ExampleIsCorrect(expectedRecurrence, percentage) ==
    IF expectedRecurrence THEN Gt(percentage, Num(250)) ELSE Lt(percentage, Num(250))

\* C27 (as claimed): for every percentage and either recorded outcome, the
\* verdict of PatientExamples is the verdict of BatchValidation: predicted is
\* percentage > 25, and the case is correct iff predicted is the outcome.
C27_SameVerdict ==
    (tiering # Null /\ tiering.riskLevel # "") =>
        \A actualRecurrence \in BOOLEAN :
            ExampleIsCorrect(actualRecurrence, tiering.percentage)
                = (PredictedRecurrence(tiering.percentage) = actualRecurrence)

\* At exactly 25 percent with no recurrence recorded, BatchValidation counts
\* the case as correct and PatientExamples as incorrect.
C27_VerdictsDifferAt25 ==
    /\ tiering # Null
    /\ tiering.percentage = Num(250)
    /\ ~ExampleIsCorrect(FALSE, tiering.percentage)
    /\ PredictedRecurrence(tiering.percentage) = FALSE

\* <SelectItem value=...>label</SelectItem> of the form's myometrial-invasion
\* select
MyometrialOptions ==
    [sin |-> "Sin infiltracion", menor50 |-> "<50%", mayor50 |-> ">=50%",
     serosa |-> "Serosa"]

\* The entry of the returned contribution list for one feature
ContributionOf(r, feature) ==
    LET i == CHOOSE j \in 1..Len(r.factorContributions) :
                 r.factorContributions[j].feature = feature
    IN  r.factorContributions[i]

\* The risk-factor list names deep myometrial invasion
ListsDeepInvasion(r) ==
    \E i \in 1..Len(r.riskFactors) :
        r.riskFactors[i].text = "Infiltracion miometrial profunda (>=50%)"

\* C28 (as claimed): for a selected myometrial-invasion option, the
\* displayValue of the infiltracion_mi contribution is that option's label, and
\* deep myometrial invasion is among the risk factors iff the option is
\* mayor50 or serosa.
C28_DisplaysSelectedOption ==
    (result # Null /\ scored.infiltracionMiometrial \in DOMAIN MyometrialOptions) =>
        /\ ContributionOf(result, "infiltracion_mi").displayValue.text
              = MyometrialOptions[scored.infiltracionMiometrial]
        /\ ListsDeepInvasion(result)
              <=> scored.infiltracionMiometrial \in {"mayor50", "serosa"}

\* part_001 scored the option serosa as 1: the contribution is displayed as
\* "<50%" and the risk factors do not name deep invasion.
C28_SerosaDisplayedAsUnderHalf ==
    /\ result # Null
    /\ ver = "alt"
    /\ scored.infiltracionMiometrial = "serosa"
    /\ ContributionOf(result, "infiltracion_mi").displayValue.text = "<50%"
    /\ ~ListsDeepInvasion(result)

\* The percentages the interval is also tried on: the ends of [0, 100], the
\* two thresholds of the half-width, the two clamping points, each with its
\* neighbours, and the middle.
IntervalPercentages ==
    {0, 1, 49, 50, 51, 199, 200, 201, 500, 799, 800, 801, 949, 950, 951, 999, 1000}

\* ci is the interval claimed for the percentage pct (tenths of a percent)
IntervalAsClaimed(pct, ci) ==
    LET half == IF pct > 200 /\ pct < 800 THEN 100 ELSE 50
    IN  /\ IsNum(ci[1]) /\ IsNum(ci[2])
        /\ 0 <= ci[1].v /\ ci[1].v <= pct /\ pct <= ci[2].v /\ ci[2].v <= 1000
        /\ ci[1].v = (IF pct - half < 0 THEN 0 ELSE pct - half)
        /\ ci[2].v = (IF pct + half > 1000 THEN 1000 ELSE pct + half)

\* C30: for every percentage in [0, 100] that part_001 returns, the estimated
\* confidence interval has 0 <= ciLower <= percentage <= ciUpper <= 100, and
\* its ends are percentage -/+ 10 when 20 < percentage < 80 and -/+ 5
\* otherwise, clamped to [0, 100]; the same on the percentages around the
\* thresholds.
C30_IntervalAroundPercentage ==
    (result # Null /\ ver = "alt") =>
        /\ (IsNum(result.percentage) /\ result.percentage.v \in 0..1000)
              => IntervalAsClaimed(result.percentage.v, result.confidenceInterval)
        /\ \A pct \in IntervalPercentages :
              IntervalAsClaimed(pct, ConfidenceInterval(Num(pct)))

\* part_001 returned a percentage above 95, whose interval is cut at 100, after
\* one between 20 and 80, whose interval is 10 wide on each side.
C30_Witness ==
    /\ result # Null
    /\ ver = "alt"
    /\ first # Null
    /\ first.result.percentage.v \in 201..799
    /\ first.result.confidenceInterval[2].v - first.result.percentage.v = 100
    /\ result.percentage.v \in 951..1000
    /\ result.confidenceInterval = <<Num(result.percentage.v - 50), Num(1000)>>

\* C29 (as claimed): a timer never sets animatedPercentage to a percentage
\* other than the one the gauge has at that moment, and once the percentage
\* stays the same, animatedPercentage becomes and stays that percentage.
C29_AnimatedFollowsPercentage ==
    /\ [](gauge # Null => gauge.fired.value = gauge.fired.percentage)
    /\ \A pct \in GaugePercentages :
          <>[](gauge.percentage = pct) => <>[](gauge.animatedPercentage = pct)

\* The timer of the render before expired after the gauge was rendered with a
\* new percentage and before that render's effect cleared it: the gauge shows
\* the earlier percentage.
C29_EarlierTimerSetTheGauge ==
    /\ gauge # Null
    /\ gauge.fired.value # gauge.fired.percentage
    /\ gauge.effectDue
    /\ gauge.percentage = gauge.fired.percentage
    /\ gauge.animatedPercentage = gauge.fired.value

====
